---- MODULE Spec2Model ----
(***************************************************************************)
(* A model of the query-processing pipeline of the RAG-to-SQL service:     *)
(* QueryToSQLChain (src/query_chain.py) and the stages it calls            *)
(* (src/llm_models.py, src/rag_retriever.py, src/db_executor.py,           *)
(* src/result_formatter_llm.py).                                           *)
(*                                                                         *)
(* Text.  A Python str is modelled as a sequence of string pieces.  Text   *)
(* that the code inspects (a generator response, SQL) is given one piece   *)
(* per character, so that strip / lower / "in" / startswith are computed   *)
(* on it.  Text the code only builds and hands on (fixed literals and      *)
(* f-strings) is the sequence of its literal pieces and interpolated       *)
(* values.                                                                 *)
(***************************************************************************)
EXTENDS Integers, Sequences, FiniteSets, TLC

VARIABLES
    mode,               \* entry point running: "none", "exec" (process_query_with_execution), "sql" (process_query)
    pc,                 \* position of the request inside the entry point
    user_query,         \* the user_query argument
    classification,     \* check_injection's return value (local `classification` / `is_safe`)
    schema_context,     \* local schema_context
    retrieved_chunks,   \* local retrieved_chunks
    reasoning,          \* local reasoning
    sql_query,          \* local sql_query (generated SQL, after extraction)
    is_valid_sql,       \* local is_valid_sql
    valid_sql_query,    \* local valid_sql_query (final SQL)
    columns,            \* local columns (executor result, first component)
    results,            \* local results (executor result, second component)
    formatted_response, \* local formatted_response
    result,             \* the dict returned by the entry point
    trace,              \* the stage calls made by the request, in order
    fmtArgs,            \* arguments and branch of each format_query_results call
    execArgs,           \* the SQL passed to each execute_query call
    collection,         \* the vector store: chunk id -> [content, embedding]
    commits,            \* statements the executor has committed
    fault,              \* str(e) of the exception the try block caught, "" when none
    open_connections,   \* database connections opened by execute_query and not closed
    ci_in,              \* check_injection under test: the generator outcome
    ci_out,             \* check_injection under test: the verdict ("" before the call)
    vs_in,              \* validate_sql_syntax under test: the text and what the parser does
    vs_out,             \* validate_sql_syntax under test: how the call ended
    handle,             \* RAGRetriever.collection: "live", or "dropped" once its collection is deleted
    upd,                \* the update_schema_chunk call each caller is in
    pop,                \* a _populate_collection call in progress
    clr,                \* a clear_collection call in progress
    last_call,          \* the call under test that returned last, with what it returned
    frames              \* concurrent requests: the local variables of each process_query_with_execution call

vars == <<mode, pc, user_query, classification, schema_context, retrieved_chunks,
          reasoning, sql_query, is_valid_sql, valid_sql_query, columns, results,
          formatted_response, result, trace, fmtArgs, execArgs, collection,
          commits, open_connections, fault, ci_in, ci_out, vs_in, vs_out,
          handle, upd, pop, clr, last_call, frames>>

pipeVars == <<mode, pc, user_query, classification, schema_context, retrieved_chunks,
              reasoning, sql_query, is_valid_sql, valid_sql_query, columns, results,
              formatted_response, result, trace, fmtArgs, execArgs, collection,
              commits, open_connections, fault>>

-----------------------------------------------------------------------------
(* Bounds *)

\* Longest generator response, in vocabulary words, given to check_injection.
MaxWords == 2

-----------------------------------------------------------------------------
(* Python str operations, on character-per-piece text *)

Whitespace == {" ", "\n", "\t"}

UpperLetters == <<"A","B","C","D","E","F","G","H","I","J","K","L","M",
                  "N","O","P","Q","R","S","T","U","V","W","X","Y","Z">>
LowerLetters == <<"a","b","c","d","e","f","g","h","i","j","k","l","m",
                  "n","o","p","q","r","s","t","u","v","w","x","y","z">>

LowerChar(c) ==
    IF \E i \in 1..26 : UpperLetters[i] = c
    THEN LowerLetters[CHOOSE i \in 1..26 : UpperLetters[i] = c]
    ELSE c

UpperChar(c) ==
    IF \E i \in 1..26 : LowerLetters[i] = c
    THEN UpperLetters[CHOOSE i \in 1..26 : LowerLetters[i] = c]
    ELSE c

\* str.lower()
Lower(s) == [i \in 1..Len(s) |-> LowerChar(s[i])]

\* str.upper()
Upper(s) == [i \in 1..Len(s) |-> UpperChar(s[i])]

\* str.strip()
Strip(s) ==
    LET keep == {i \in 1..Len(s) : s[i] \notin Whitespace}
    IN  IF keep = {} THEN << >>
        ELSE LET lo == CHOOSE i \in keep : \A j \in keep : i <= j
                 hi == CHOOSE i \in keep : \A j \in keep : j <= i
             IN  SubSeq(s, lo, hi)

\* str.startswith(p)
StartsWith(s, p) == Len(p) <= Len(s) /\ SubSeq(s, 1, Len(p)) = p

\* str.endswith(p)
EndsWith(s, p) == Len(p) <= Len(s) /\ SubSeq(s, Len(s) - Len(p) + 1, Len(s)) = p

\* `sub in s`
Contains(s, sub) ==
    \E i \in 0..(Len(s) - Len(sub)) : SubSeq(s, i + 1, i + Len(sub)) = sub

\* s.find(sub), 1-based; 0 when absent
Find(s, sub) ==
    IF Contains(s, sub)
    THEN CHOOSE i \in 1..Len(s) :
            /\ i + Len(sub) - 1 <= Len(s)
            /\ SubSeq(s, i, i + Len(sub) - 1) = sub
            /\ \A j \in 1..(i - 1) : SubSeq(s, j, j + Len(sub) - 1) # sub
    ELSE 0

RECURSIVE Flatten(_)
Flatten(ss) == IF ss = << >> THEN << >> ELSE Head(ss) \o Flatten(Tail(ss))

\* All sequences over S of length at most n.
SeqsUpTo(S, n) == UNION {[1..k -> S] : k \in 0..n}

-----------------------------------------------------------------------------
(* The text generator: GeminiLLM.generate_response *)

\* The literal returned when generate_content raises.
SENTINEL == <<"E","r","r","o","r"," ","g","e","n","e","r","a","t","i","n","g"," ",
              "r","e","s","p","o","n","s","e">>

\* What the external model does with one prompt: it raises, or it returns text.
GenFail == [raises |-> TRUE, text |-> << >>]
GenText(t) == [raises |-> FALSE, text |-> t]

generate_response(o) == IF o.raises THEN SENTINEL ELSE o.text

-----------------------------------------------------------------------------
(* InjectionCheckLLM.check_injection *)

W_valid     == <<"v","a","l","i","d">>
W_injection == <<"i","n","j","e","c","t","i","o","n">>
W_unrelated == <<"u","n","r","e","l","a","t","e","d">>

\* Words the classifier's response is assembled from.
ClassifierVocab ==
    { W_valid, W_injection, W_unrelated,
      <<"I","n","j","e","c","t","i","o","n">>,
      <<"i","n">>, <<" ">>, <<"o","k","\n">> }

ClassifierResponses == {Flatten(ws) : ws \in SeqsUpTo(ClassifierVocab, MaxWords)}

ClassifierOutcomes == {GenFail} \cup {GenText(t) : t \in ClassifierResponses \cup {SENTINEL}}

check_injection_valid_on_unclear(o) ==
    LET response == Lower(Strip(generate_response(o)))
    IN  IF Contains(response, W_valid) THEN "valid"
        ELSE IF Contains(response, W_injection) THEN "injection"
        ELSE IF Contains(response, W_unrelated) THEN "unrelated"
        ELSE "valid"

check_injection(o) ==
    LET response == Lower(Strip(generate_response(o)))
    IN  IF Contains(response, W_valid) THEN "valid"
        ELSE IF Contains(response, W_injection) THEN "injection"
        ELSE IF Contains(response, W_unrelated) THEN "unrelated"
        ELSE "unrelated"

-----------------------------------------------------------------------------
(* More str operations, used by the SQL extraction routines *)

\* s.replace(sub, "")
RECURSIVE RemoveAll(_, _)
RemoveAll(s, sub) ==
    LET p == Find(s, sub)
    IN  IF p = 0 THEN s
        ELSE SubSeq(s, 1, p - 1) \o RemoveAll(SubSeq(s, p + Len(sub), Len(s)), sub)

\* s.split(sep)
RECURSIVE Split(_, _)
Split(s, sep) ==
    LET p == Find(s, sep)
    IN  IF p = 0 THEN <<s>>
        ELSE <<SubSeq(s, 1, p - 1)>> \o Split(SubSeq(s, p + Len(sep), Len(s)), sep)

\* sep.join(parts)
RECURSIVE Join(_, _)
Join(parts, sep) ==
    IF parts = << >> THEN << >>
    ELSE IF Len(parts) = 1 THEN parts[1]
    ELSE parts[1] \o sep \o Join(Tail(parts), sep)

K_SELECT == <<"S","E","L","E","C","T">>
K_INSERT == <<"I","N","S","E","R","T">>
K_UPDATE == <<"U","P","D","A","T","E">>
K_DELETE == <<"D","E","L","E","T","E">>
K_WITH   == <<"W","I","T","H">>
StatementKeywords == {K_SELECT, K_INSERT, K_UPDATE, K_DELETE, K_WITH}

\* The grave accent character (U+0060), which a TLA+ string cannot hold.
BQ == "<grave>"

FENCE_SQL == <<BQ, BQ, BQ, "s", "q", "l">>
FENCE     == <<BQ, BQ, BQ>>

\* s.upper().startswith((keywords...))
KeywordLed(s) == \E k \in StatementKeywords : StartsWith(Upper(s), k)

-----------------------------------------------------------------------------
(* SQLGeneratorLLM *)

\* The markdown removal of _extract_sql, on the stripped response.
RemoveFences(r1) ==
    IF StartsWith(r1, FENCE_SQL)
       THEN Strip(RemoveAll(RemoveAll(r1, FENCE_SQL), FENCE))
    ELSE IF StartsWith(r1, FENCE)
       THEN Strip(RemoveAll(r1, FENCE))
    ELSE r1

_extract_sql(response0) ==
    LET r1 == Strip(response0)
        r2 == RemoveFences(r1)
        r3 == IF ~KeywordLed(r2) /\ Contains(Upper(r2), K_SELECT)
                 THEN SubSeq(r2, Find(Upper(r2), K_SELECT), Len(r2))
              ELSE r2
    IN  Strip(r3)

generate_sql(o) == _extract_sql(generate_response(o))

-----------------------------------------------------------------------------
(* SQLCorrectorLLM *)

\* The loop over the response's lines (llm_models.py:433-448).
RECURSIVE CollectSqlLines(_, _, _)
CollectSqlLines(lines, sql_started, sql_lines) ==
    IF lines = << >> THEN sql_lines
    ELSE LET line == Strip(Head(lines))
         IN  IF line = << >> THEN CollectSqlLines(Tail(lines), sql_started, sql_lines)
             ELSE LET started == sql_started \/ KeywordLed(line)
                  IN  IF started
                      THEN IF EndsWith(line, <<";">>)
                           THEN Append(sql_lines, line)
                           ELSE CollectSqlLines(Tail(lines), started, Append(sql_lines, line))
                      ELSE CollectSqlLines(Tail(lines), started, sql_lines)

\* response[:i + 1] for the first ';' of response, or response when it has none
CutAfterFirstSemicolon(s) ==
    LET p == Find(s, <<";">>) IN IF p = 0 THEN s ELSE SubSeq(s, 1, p)

\* The markdown removal of _extract_sql_clean, on the stripped response.
FencedBlock(r1) ==
    IF Contains(r1, FENCE_SQL)
       THEN Strip(Split(Split(r1, FENCE_SQL)[2], FENCE)[1])
    ELSE IF Contains(r1, FENCE)
       THEN Strip(Split(r1, FENCE)[2])
    ELSE r1

_extract_sql_clean(response0) ==
    LET r1 == Strip(response0)
        r2 == FencedBlock(r1)
        collected == CollectSqlLines(Split(r2, <<"\n">>), FALSE, << >>)
        fallback == collected = << >> /\ Contains(Upper(r2), K_SELECT)
        r3 == IF fallback
                 THEN CutAfterFirstSemicolon(SubSeq(r2, Find(Upper(r2), K_SELECT), Len(r2)))
              ELSE r2
        sql_lines == IF fallback THEN <<Strip(r3)>> ELSE collected
        corrected_sql == IF sql_lines # << >> THEN Join(sql_lines, <<" ">>) ELSE Strip(r3)
    IN  IF corrected_sql # << >> /\ ~EndsWith(corrected_sql, <<";">>)
        THEN corrected_sql \o <<";">>
        ELSE corrected_sql

correct_sql(o) == _extract_sql_clean(generate_response(o))

-----------------------------------------------------------------------------
(* QueryToSQLChain.validate_sql_syntax *)

AllWhitespace(s) == \A i \in 1..Len(s) : s[i] \in Whitespace

\* sqlparse.parse: the statements of the text.  The splitter ends a statement
\* after a ';' (with the spaces that follow it) and yields no statement for
\* text that holds only whitespace.
RECURSIVE sqlparse_parse(_)
sqlparse_parse(sql) ==
    IF AllWhitespace(sql) THEN << >>
    ELSE LET p == Find(sql, <<";">>)
         IN  IF p = 0 THEN <<sql>>
             ELSE LET after == {i \in (p + 1)..Len(sql) : sql[i] \notin {" ", "\t"}}
                      e == IF after = {} THEN Len(sql)
                           ELSE (CHOOSE i \in after : \A j \in after : i <= j) - 1
                  IN  <<SubSeq(sql, 1, e)>> \o sqlparse_parse(SubSeq(sql, e + 1, Len(sql)))

validate_sql_syntax_nonempty_text(sql) == sql # << >>

validate_sql_syntax(sql) ==
    LET parsed == sqlparse_parse(sql)
    IN  IF parsed = << >> THEN FALSE
        ELSE \E i \in 1..Len(parsed) : Len(parsed[i]) > 0

\* A run of nested parentheses deeper than the parser's grouping can follow,
\* as one piece of text.
DEEP == "<parentheses nested beyond the parser's depth>"

\* Whether sqlparse.parse raises on the text (query_chain.py:27): its grouping
\* gives up on nesting that is too deep.
sqlparse_raises(sql) == \E i \in 1..Len(sql) : sql[i] = DEEP

validate_sql_syntax_propagating(sql, parserRaises) ==
    [raised |-> parserRaises, value |-> IF parserRaises THEN FALSE ELSE validate_sql_syntax(sql)]

\* The whole call, try block included (query_chain.py:26-37): sqlparse.parse
\* may raise, which the except clause turns into False.
validate_sql_syntax_call(sql, parserRaises) ==
    [raised |-> FALSE, value |-> IF parserRaises THEN FALSE ELSE validate_sql_syntax(sql)]

\* self.validate_sql_syntax(sql) as the entry points call it
\* (query_chain.py:91, 107, 177, 238, 254, 276).
is_syntax_valid(sql) == validate_sql_syntax_call(sql, sqlparse_raises(sql)).value

-----------------------------------------------------------------------------
(* Python values whose type the code tests: None, list, str, int *)

PyNone    == [t |-> "None"]
PyList(v) == [t |-> "list", v |-> v]
PyStr(v)  == [t |-> "str", v |-> v]
PyInt(n)  == [t |-> "int", v |-> n]

\* bool(x)
PyTruthy(x) ==
    CASE x.t = "None" -> FALSE
      [] x.t = "int"  -> x.v # 0
      [] OTHER        -> Len(x.v) > 0

\* len(x) of a list or a str
PyLen(x) == Len(x.v)

\* x[:n] of a list or a str
PySlice(x, n) == [t |-> x.t, v |-> SubSeq(x.v, 1, IF n < Len(x.v) THEN n ELSE Len(x.v))]

\* x or [] 
PyOrEmptyList(x) == IF PyTruthy(x) THEN x ELSE PyList(<< >>)

\* bool(s) of a verdict string
StrTruthy(s) == s # ""

-----------------------------------------------------------------------------
(* RAGRetriever.  Distances are in units of 0.25 and an embedding is a       *)
(* vector of four coordinates in units of 0.5, so that a squared L2 distance *)
(* is a whole number of units.                                               *)

\* threshold = 1.75
THRESHOLD == 7

\* QueryToSQLChain.top_k
TOP_K == 2

DOC_HCPS         == "TABLE: july_HCPs ..."
DOC_INTERACTIONS == "TABLE: july_interactions ..."
DOC_CONTEXT      == "DATABASE: healthcare_analytics ..."

\* _populate_collection's schema_chunks
schema_chunks ==
    << [id |-> "july_HCPs",         content |-> DOC_HCPS],
       [id |-> "july_interactions", content |-> DOC_INTERACTIONS],
       [id |-> "database_context",  content |-> DOC_CONTEXT] >>

Queries == {"Show all consultants", "DROP TABLE july_HCPs"}

\* Arguments of update_schema_chunk and delete_schema_chunk calls.
DOC_HCPS_REVISED == "TABLE: july_HCPs (revised) ..."
DOC_NOTES        == "NOTES: consultants ..."
UpdateIds      == {"july_HCPs", "notes"}
UpdateContents == {DOC_HCPS_REVISED, DOC_NOTES}
ChunkIds       == {"july_HCPs", "july_interactions", "database_context", "notes"}

\* The embedding service's vector for a text (external; fixed per text).
EmbeddingVector(text) ==
    CASE text = DOC_HCPS               -> <<0, 0, 0, 0>>
      [] text = DOC_INTERACTIONS       -> <<2, 0, 0, 0>>
      [] text = DOC_CONTEXT            -> <<3, 0, 0, 0>>
      [] text = DOC_HCPS_REVISED       -> <<1, 0, 0, 0>>
      [] text = DOC_NOTES              -> <<2, 1, 1, 1>>
      [] text = "Show all consultants" -> <<0, 0, 0, 0>>
      [] text = "DROP TABLE july_HCPs" -> <<5, 0, 0, 0>>
      [] OTHER                         -> <<1, 1, 0, 0>>

\* _get_embedding: the vector, or [] when the service call raises
_get_embedding(text, ok) == IF ok THEN EmbeddingVector(text) ELSE << >>

\* The store's distance: squared L2 over the four coordinates.
Distance(a, b) ==
    LET sq(i) == (a[i] - b[i]) * (a[i] - b[i])
    IN  sq(1) + sq(2) + sq(3) + sq(4)

\* _populate_collection: the chunks whose embedding call succeeded (okIds)
_populate_collection(okIds) ==
    [id \in {schema_chunks[i].id : i \in {j \in 1..Len(schema_chunks) : schema_chunks[j].id \in okIds}} |->
        LET c == CHOOSE c \in {schema_chunks[i] : i \in 1..Len(schema_chunks)} : c.id = id
        IN  [document |-> c.content,
             embedding |-> _get_embedding(c.content, TRUE),
             metadata |-> [table |-> id]]]

RECURSIVE NearestFirst_farthest(_, _, _)
NearestFirst_farthest(coll, ids, qe) ==
    IF ids = {} THEN << >>
    ELSE LET m == CHOOSE i \in ids :
                    \A j \in ids : Distance(coll[i].embedding, qe) >= Distance(coll[j].embedding, qe)
         IN  <<m>> \o NearestFirst_farthest(coll, ids \ {m}, qe)

\* The ids of a collection, nearest to the query embedding first.
RECURSIVE NearestFirst(_, _, _)
NearestFirst(coll, ids, qe) ==
    IF ids = {} THEN << >>
    ELSE LET m == CHOOSE i \in ids :
                    \A j \in ids : Distance(coll[i].embedding, qe) <= Distance(coll[j].embedding, qe)
         IN  <<m>> \o NearestFirst(coll, ids \ {m}, qe)

\* collection.query(query_embeddings=[qe], n_results=n)
collection_query(coll, qe, n) ==
    LET order == NearestFirst(coll, DOMAIN coll, qe)
        top == SubSeq(order, 1, IF n < Len(order) THEN n ELSE Len(order))
    IN  [documents |-> [i \in 1..Len(top) |-> coll[top[i]].document],
         distances |-> [i \in 1..Len(top) |-> Distance(coll[top[i]].embedding, qe)]]

retrieve_chunks_strictly_below(coll, query, k, embOk) ==
    LET query_embedding == _get_embedding(query, embOk)
    IN  IF query_embedding = << >> THEN << >>
        ELSE LET res == collection_query(coll, query_embedding, k)
                 pairs == [i \in 1..Len(res.documents) |-> <<res.documents[i], res.distances[i]>>]
                 Keep(p) == p[2] < THRESHOLD
             IN  SelectSeq(pairs, Keep)

\* retrieve_chunks: list of (document, score)
retrieve_chunks(coll, query, k, embOk) ==
    LET query_embedding == _get_embedding(query, embOk)
    IN  IF query_embedding = << >> THEN << >>
        ELSE LET res == collection_query(coll, query_embedding, k)
                 pairs == [i \in 1..Len(res.documents) |-> <<res.documents[i], res.distances[i]>>]
                 Keep(p) == p[2] <= THRESHOLD
             IN  SelectSeq(pairs, Keep)

\* f"{score:.3f}" of a distance given in units of 0.25
FormatScore(d) ==
    <<ToString(d \div 4), ".",
      CASE d % 4 = 0 -> "000" [] d % 4 = 1 -> "250" [] d % 4 = 2 -> "500" [] OTHER -> "750">>

NO_SCHEMA == <<"No relevant schema found.">>

get_schema_context_empty_text(chunks) ==
    IF chunks = << >> THEN << >>
    ELSE <<"Relevant Database Schema:\n\n">> \o
         Flatten([i \in 1..Len(chunks) |->
                    <<"Schema ", ToString(i), " (Relevance Score: ">> \o FormatScore(chunks[i][2])
                    \o <<"):\n", chunks[i][1], "\n\n">>])

\* get_schema_context, given what its retrieve_chunks call returned
get_schema_context(chunks) ==
    IF chunks = << >> THEN NO_SCHEMA
    ELSE <<"Relevant Database Schema:\n\n">> \o
         Flatten([i \in 1..Len(chunks) |->
                    <<"Schema ", ToString(i), " (Relevance Score: ">> \o FormatScore(chunks[i][2])
                    \o <<"):\n", chunks[i][1], "\n\n">>])

\* Whether retrieve_chunks reaches collection.query (rag_retriever.py:254-256).
retrieve_chunks_queries_store(query, embOk) == _get_embedding(query, embOk) # << >>

\* collection.upsert(ids=[chunk_id], documents=[content], embeddings=[embedding],
\*                   metadatas=[{"table": chunk_id}])
collection_upsert(coll, chunk_id, content, embedding) ==
    [id \in DOMAIN coll \cup {chunk_id} |->
        IF id = chunk_id
        THEN [document |-> content, embedding |-> embedding, metadata |-> [table |-> chunk_id]]
        ELSE coll[id]]

update_schema_chunk_stale_embedding(coll, chunk_id, content, embedding) ==
    IF embedding # << >> /\ chunk_id \in DOMAIN coll
    THEN collection_upsert(coll, chunk_id, content, coll[chunk_id].embedding)
    ELSE IF embedding # << >> THEN collection_upsert(coll, chunk_id, content, embedding)
    ELSE coll

update_schema_chunk_partial_write(coll, chunk_id, content, embedding) ==
    IF embedding # << >> THEN collection_upsert(coll, chunk_id, content, embedding)
    ELSE IF chunk_id \in DOMAIN coll
         THEN collection_upsert(coll, chunk_id, content, coll[chunk_id].embedding)
         ELSE coll

\* update_schema_chunk once the embedding call has returned
\* (rag_retriever.py:194-204): the store it leaves.
update_schema_chunk(coll, chunk_id, content, embedding) ==
    IF embedding # << >> THEN collection_upsert(coll, chunk_id, content, embedding)
    ELSE coll

\* collection.delete(ids=[chunk_id])
delete_schema_chunk(coll, chunk_id) == [id \in DOMAIN coll \ {chunk_id} |-> coll[id]]

\* collection.add of _populate_collection's records: ids already stored keep
\* their record.
collection_add(coll, okIds) ==
    LET fresh == _populate_collection(okIds)
    IN  [id \in DOMAIN coll \cup DOMAIN fresh |-> IF id \in DOMAIN coll THEN coll[id] ELSE fresh[id]]

-----------------------------------------------------------------------------
(* DatabaseExecutor *)

\* Most rows a SELECT returns.
MaxRows == 22

DB_ERROR_PREFIX   == <<"D","a","t","a","b","a","s","e"," ","E","r","r","o","r",":"," ">>
UNEXPECTED_PREFIX == <<"U","n","e","x","p","e","c","t","e","d"," ","E","r","r","o","r",":"," ">>
EXECUTED_PREFIX   == <<"Q","u","e","r","y"," ","e","x","e","c","u","t","e","d"," ",
                       "s","u","c","c","e","s","s","f","u","l","l","y","."," ">>
AFFECTED_SUFFIX   == <<" ","r","o","w","s"," ","a","f","f","e","c","t","e","d",".">>
W_select          == <<"s","e","l","e","c","t">>

\* str(n) of a number below 100, one piece per character
Digits(n) == IF n < 10 THEN <<ToString(n)>> ELSE <<ToString(n \div 10), ToString(n % 10)>>

\* The result set the database returns: R rows of one column, in one of two orders.
RowsOf(R, order) == [i \in 1..R |-> <<IF order = "asc" THEN i ELSE R + 1 - i>>]

\* What the database does with one statement: the driver raises a
\* mysql.connector.Error, something else raises, or the statement runs; and
\* closing the cursor afterwards may raise.
DbOutcomes ==
    [kind : {"db_error"}, err : {<<"1","1","4","6">>}, rows : {<< >>}, closeRaises : BOOLEAN]
    \cup [kind : {"unexpected"}, err : {<<"b","o","o","m">>}, rows : {<< >>}, closeRaises : BOOLEAN]
    \cup [kind : {"ok"}, err : {<< >>},
          rows : {RowsOf(R, o) : R \in 0..MaxRows, o \in {"asc", "desc"}},
          closeRaises : BOOLEAN]

\* execute_query(query): [raised, columns, results, committed, conn_left_open].
\* The finally clause closes the cursor and then the connection
\* (db_executor.py:67-72): when cursor.close() raises, conn.close() is not reached.
execute_query(query, db) ==
    LET isSelect == StartsWith(Lower(Strip(query)), W_select)
        committed == db.kind = "ok" /\ ~isSelect
        ret == CASE db.kind = "db_error" ->
                      [columns |-> PyNone, results |-> PyStr(DB_ERROR_PREFIX \o db.err)]
                 [] db.kind = "unexpected" ->
                      [columns |-> PyNone, results |-> PyStr(UNEXPECTED_PREFIX \o db.err)]
                 [] db.kind = "ok" /\ isSelect ->
                      [columns |-> PyList(<<"id">>), results |-> PyList(db.rows)]
                 [] OTHER ->
                      [columns |-> PyNone,
                       results |-> PyStr(EXECUTED_PREFIX \o Digits(Len(db.rows)) \o AFFECTED_SUFFIX)]
    IN  [raised |-> db.closeRaises, columns |-> ret.columns, results |-> ret.results,
         committed |-> committed, conn_left_open |-> db.closeRaises]

get_result_summary(cols, res) ==
    [total_rows |-> PyLen(res), total_columns |-> PyLen(cols),
     column_names |-> cols, has_data |-> PyLen(res) > 0]

-----------------------------------------------------------------------------
(* ResultFormatterLLM *)

\* _prepare_data_sample's max_rows default
SAMPLE_MAX_ROWS == 10

\* str(value) if value is not None else "NULL", for the values of one row
FormatRow(row) == [i \in 1..Len(row) |-> ToString(row[i])]

_prepare_data_sample_without_columns(cols, res, total_rows, max_rows) ==
    IF ~PyTruthy(res) THEN [raised |-> FALSE, lines |-> <<[kind |-> "no_data"]>>]
    ELSE LET sample_results == PySlice(res, max_rows).v
             more == total_rows - Len(sample_results)
         IN  [raised |-> FALSE,
              lines |-> <<[kind |-> "header", cells |-> IF cols.t = "list" THEN cols.v ELSE << >>],
                          [kind |-> "separator"]>>
                        \o [i \in 1..Len(sample_results) |->
                              [kind |-> "row",
                               cells |-> IF res.t = "list" THEN FormatRow(sample_results[i])
                                         ELSE <<sample_results[i]>>]]
                        \o (IF total_rows > Len(sample_results)
                            THEN <<[kind |-> "trailer", more |-> more]>> ELSE << >>)]

_prepare_data_sample_counting_passed_rows(cols, res, total_rows, max_rows) ==
    IF ~PyTruthy(res) THEN [raised |-> FALSE, lines |-> <<[kind |-> "no_data"]>>]
    ELSE IF cols.t # "list" THEN [raised |-> TRUE, lines |-> << >>]
    ELSE LET sample_results == PySlice(res, max_rows).v
         IN  [raised |-> FALSE,
              lines |-> <<[kind |-> "header", cells |-> cols.v], [kind |-> "separator"]>>
                        \o [i \in 1..Len(sample_results) |->
                              [kind |-> "row", cells |-> FormatRow(sample_results[i])]]
                        \o (IF PyLen(res) > Len(sample_results)
                            THEN <<[kind |-> "trailer", more |-> PyLen(res) - Len(sample_results)]>>
                            ELSE << >>)]

\* _prepare_data_sample: [raised, lines]; the lines of the sample, or the
\* TypeError of " | ".join(None).
_prepare_data_sample(cols, res, total_rows, max_rows) ==
    IF ~PyTruthy(res) THEN [raised |-> FALSE, lines |-> <<[kind |-> "no_data"]>>]
    ELSE IF cols.t # "list" THEN [raised |-> TRUE, lines |-> << >>]
    ELSE LET sample_results == PySlice(res, max_rows).v
             more == total_rows - Len(sample_results)
         IN  [raised |-> FALSE,
              lines |-> <<[kind |-> "header", cells |-> cols.v], [kind |-> "separator"]>>
                        \o [i \in 1..Len(sample_results) |->
                              [kind |-> "row",
                               cells |-> IF res.t = "list" THEN FormatRow(sample_results[i])
                                         ELSE <<sample_results[i]>>]]
                        \o (IF total_rows > Len(sample_results)
                            THEN <<[kind |-> "trailer", more |-> more]>> ELSE << >>)]

\* What the formatter's generator may answer.
FormatterOutcomes == {GenFail, GenText(<<"Here is what I found.">>)}

format_query_results_data_on_empty(uq, sql, cols, res, error_message, total_rows, o) ==
    LET actual_total_rows == IF total_rows.t # "None" THEN total_rows.v ELSE PyLen(res)
    IN  IF PyTruthy(error_message)
        THEN [raised |-> FALSE, branch |-> "error", sample |-> << >>,
              text |-> generate_response(o), generator_calls |-> 1, sample_built |-> FALSE]
        ELSE LET data_sample == _prepare_data_sample(cols, res, actual_total_rows, SAMPLE_MAX_ROWS)
             IN  IF data_sample.raised
                 THEN [raised |-> TRUE, branch |-> "data", sample |-> << >>, text |-> << >>,
                       generator_calls |-> 0, sample_built |-> FALSE]
                 ELSE [raised |-> FALSE, branch |-> "data", sample |-> data_sample.lines,
                       text |-> generate_response(o), generator_calls |-> 1,
                       sample_built |-> TRUE]

\* format_query_results: whether it raised, the branch taken, the sample put in
\* the prompt, the text returned, and how many generator calls it made.
format_query_results(uq, sql, cols, res, error_message, total_rows, o) ==
    LET actual_total_rows == IF total_rows.t # "None" THEN total_rows.v ELSE PyLen(res)
    IN  IF PyTruthy(error_message)
        THEN [raised |-> FALSE, branch |-> "error", sample |-> << >>,
              text |-> generate_response(o), generator_calls |-> 1, sample_built |-> FALSE]
        ELSE IF actual_total_rows = 0
        THEN [raised |-> FALSE, branch |-> "no_data", sample |-> << >>,
              text |-> generate_response(o), generator_calls |-> 1, sample_built |-> FALSE]
        ELSE LET data_sample == _prepare_data_sample(cols, res, actual_total_rows, SAMPLE_MAX_ROWS)
             IN  IF data_sample.raised
                 THEN [raised |-> TRUE, branch |-> "data", sample |-> << >>, text |-> << >>,
                       generator_calls |-> 0, sample_built |-> FALSE]
                 ELSE [raised |-> FALSE, branch |-> "data", sample |-> data_sample.lines,
                       text |-> generate_response(o), generator_calls |-> 1,
                       sample_built |-> TRUE]

-----------------------------------------------------------------------------
(* QueryToSQLChain: the two entry points *)

MSG_INJECTION == <<"This query contains inappropriate content that violates security policies. Please rephrase your request using only standard data retrieval language without any database modification commands.">>
RESP_INJECTION == <<"I cannot process this request as it contains content that violates our security policies. Please rephrase your question using standard data retrieval language.">>
MSG_UNRELATED == <<"This query is not related to the healthcare analytics database.">>
RESP_UNRELATED == <<"I'm a healthcare analytics assistant designed to help you query our healthcare database containing information about healthcare professionals and medical representative interactions. Your question appears to be unrelated to this database. Please ask questions about HCPs, medical representatives, interactions, specialties, or related healthcare data analysis.">>

DB_ERROR_MARK   == <<"D","a","t","a","b","a","s","e"," ","E","r","r","o","r",":">>
UNEXPECTED_MARK == <<"U","n","e","x","p","e","c","t","e","d"," ","E","r","r","o","r",":">>

\* The cap on the rows handed to the formatter (query_chain.py:141).
LLM_ROW_CAP == 20

\* str(e) of the exceptions the stages can raise into the orchestrator.
E_STORE == "vector store query failed"
E_CLOSE == "cursor close failed"
E_JOIN  == "can only join an iterable"

ReasoningOutcomes == {GenFail, GenText(<<"1. Use table july_HCPs. 2. Filter isconsultant = TRUE.">>)}

GeneratorOutcomes ==
    {GenFail} \cup
    {GenText(t) : t \in { <<"S","E","L","E","C","T"," ","1",";">>,
                          << >>,
                          <<BQ,BQ,BQ,"s","q","l","\n","S","E","L","E","C","T"," ","1","\n",BQ,BQ,BQ>>,
                          <<"D","E","L","E","T","E"," ","F","R","O","M"," ","t">>,
                          <<"S","E","L","E","C","T"," ",DEEP>> }}

CorrectorOutcomes ==
    {GenFail} \cup
    {GenText(t) : t \in { <<"S","E","L","E","C","T"," ","1">>,
                          << >>,
                          <<BQ,BQ,BQ,"s","q","l","\n","S","E","L","E","C","T"," ","1","\n",BQ,BQ,BQ>>,
                          <<"n","o"," ","i","d","e","a">>,
                          <<"S","E","L","E","C","T"," ",DEEP,"\n","F","R","O","M"," ","t">> }}

generate_reasoning(o) == generate_response(o)

\* The except clause of process_query (query_chain.py:282-288).
ExceptionResultSql(q, e) ==
    [status |-> "error", error_message |-> <<e>>, user_query |-> q]

ExceptionResultExec_as_legacy(q, e) == ExceptionResultSql(q, e)

ExceptionResultExec_database_kind(q, e) ==
    [status |-> "error", error_type |-> "database_execution", error_message |-> <<e>>,
     user_query |-> q, formatted_response |-> << >>]

\* The except clause of process_query_with_execution (query_chain.py:184-194).
ExceptionResultExec(q, e) ==
    [status |-> "error", error_type |-> "processing_error", error_message |-> <<e>>,
     user_query |-> q,
     formatted_response |->
        <<"I apologize, but I encountered an unexpected error while processing your request: ",
          e, ". Please try rephrasing your question or contact support if the issue persists.">>]

\* The return of query_chain.py:52-58.
RejectInjectionResult(q) ==
    [status |-> "error", error_type |-> "security_violation",
     error_message |-> MSG_INJECTION, user_query |-> q,
     formatted_response |-> RESP_INJECTION]

\* The return of query_chain.py:61-67.
RejectUnrelatedResult(q) ==
    [status |-> "error", error_type |-> "unrelated_query",
     error_message |-> MSG_UNRELATED, user_query |-> q,
     formatted_response |-> RESP_UNRELATED]

\* The return of query_chain.py:209-214.
RejectUnsafeResult(q) ==
    [status |-> "error", error_type |-> "security_violation",
     error_message |-> MSG_INJECTION, user_query |-> q]

ExecRoute_unrelated_continues(c) ==
    IF c = "injection" THEN "reject_injection" ELSE "continue"

\* The branch on classification (query_chain.py:50, 59, 69).
ExecRoute(c) ==
    IF c = "injection" THEN "reject_injection"
    ELSE IF c = "unrelated" THEN "reject_unrelated"
    ELSE "continue"

\* The branch on `not is_safe` (query_chain.py:207).
SqlRoute(is_safe) == IF ~StrTruthy(is_safe) THEN "reject" ELSE "continue"

ExceptionResult(m, q, e) ==
    IF m = "exec" THEN ExceptionResultExec(q, e) ELSE ExceptionResultSql(q, e)

\* The chunk dicts of the result's retrieved_chunks
ChunkDicts(chunks) ==
    [i \in 1..Len(chunks) |-> [content |-> chunks[i][1], relevance_score |-> chunks[i][2]]]

Count(tr, name) == Cardinality({i \in 1..Len(tr) : tr[i] = name})

NoResult == [status |-> "none"]

\* The two callers that may be inside the retriever at once.
Callers == {"a", "b"}

NoUpdate == [pc |-> "idle", chunk_id |-> "", content |-> "", embedding |-> << >>,
             stored |-> FALSE, overlapped |-> FALSE]
NoPopulate == [pc |-> "idle", okIds |-> {}]
NoCall == [kind |-> "none"]

\* The requests that may be inside process_query_with_execution at once.
Requests == {"r1", "r2"}

\* The local variables of a process_query_with_execution call that has not
\* started, and the external responses it has consumed (none).
IdleFrame ==
    [pc |-> "idle", user_query |-> "", classification |-> "", schema_context |-> << >>,
     retrieved_chunks |-> << >>, reasoning |-> << >>, sql_query |-> << >>,
     is_valid_sql |-> FALSE, valid_sql_query |-> << >>, columns |-> PyNone,
     results |-> PyNone, formatted_response |-> << >>, result |-> NoResult,
     log |-> << >>]

\* validate_sql_syntax under test, before the call.
NotCalled == [returned |-> FALSE, raised |-> FALSE, value |-> FALSE]

\* No validate_sql_syntax call under test and no retriever call in progress.
UnitsIdle ==
    /\ vs_in = [sql |-> << >>, parserRaises |-> FALSE]
    /\ vs_out = NotCalled
    /\ handle = "live"
    /\ upd = [c \in Callers |-> NoUpdate]
    /\ pop = NoPopulate
    /\ clr = "idle"
    /\ last_call = NoCall
    /\ frames = [r \in Requests |-> IdleFrame]

\* No request in progress: the locals of the entry points before a call.
PipelineIdle ==
    /\ mode = "none"
    /\ pc = "idle"
    /\ user_query = ""
    /\ classification = ""
    /\ schema_context = << >>
    /\ retrieved_chunks = << >>
    /\ reasoning = << >>
    /\ sql_query = << >>
    /\ is_valid_sql = FALSE
    /\ valid_sql_query = << >>
    /\ columns = PyNone
    /\ results = PyNone
    /\ formatted_response = << >>
    /\ result = NoResult
    /\ trace = << >>
    /\ fmtArgs = << >>
    /\ execArgs = << >>
    /\ commits = << >>
    /\ open_connections = 0
    /\ fault = ""

\* The chunks _populate_collection managed to embed when the store was built,
\* as a request finds it: every chunk, or none.
PopulatedIds == {{}, {"july_HCPs", "july_interactions", "database_context"}}

Init ==
    /\ mode = "none"
    /\ pc = "idle"
    /\ user_query = ""
    /\ classification = ""
    /\ schema_context = << >>
    /\ retrieved_chunks = << >>
    /\ reasoning = << >>
    /\ sql_query = << >>
    /\ is_valid_sql = FALSE
    /\ valid_sql_query = << >>
    /\ columns = PyNone
    /\ results = PyNone
    /\ formatted_response = << >>
    /\ result = NoResult
    /\ trace = << >>
    /\ fmtArgs = << >>
    /\ execArgs = << >>
    /\ \E okIds \in PopulatedIds : collection = _populate_collection(okIds)
    /\ commits = << >>
    /\ open_connections = 0
    /\ fault = ""
    /\ ci_in = GenFail
    /\ ci_out = ""
    /\ UnitsIdle

locals == <<classification, schema_context, retrieved_chunks, reasoning, sql_query,
            is_valid_sql, valid_sql_query, columns, results, formatted_response>>
ghosts == <<fmtArgs, execArgs>>
stores == <<collection, commits, open_connections>>
ciVars == <<ci_in, ci_out>>
vsVars == <<vs_in, vs_out>>
adminVars == <<handle, upd, pop, clr, last_call>>
frameVars == <<frames>>
unitVars == <<ciVars, vsVars, adminVars, frameVars>>
requestVars == <<mode, pc, user_query, locals, result, trace, ghosts, commits,
                 open_connections, fault>>

\* A caller enters process_query_with_execution(q) or process_query(q).
Enter ==
    /\ pc = "idle"
    /\ \E m \in {"exec", "sql"}, q \in Queries :
          /\ mode' = m
          /\ user_query' = q
    /\ pc' = "classify"
    /\ UNCHANGED <<locals, result, trace, ghosts, stores, fault, unitVars>>

\* Step 0 of process_query_with_execution (query_chain.py:46-69).
ClassifyExec ==
    /\ pc = "classify" /\ mode = "exec"
    /\ \E o \in ClassifierOutcomes :
          LET c == check_injection(o)
          IN  /\ classification' = c
              /\ CASE ExecRoute(c) = "reject_injection" ->
                       /\ result' = RejectInjectionResult(user_query)
                       /\ pc' = "done"
                   [] ExecRoute(c) = "reject_unrelated" ->
                       /\ result' = RejectUnrelatedResult(user_query)
                       /\ pc' = "done"
                   [] OTHER ->
                       /\ result' = result
                       /\ pc' = "get_schema_context"
    /\ trace' = Append(trace, "classifier")
    /\ UNCHANGED <<mode, user_query, schema_context, retrieved_chunks, reasoning, sql_query,
                   is_valid_sql, valid_sql_query, columns, results, formatted_response,
                   ghosts, stores, fault, unitVars>>

\* Step 0 of process_query (query_chain.py:203-216).
ClassifySql ==
    /\ pc = "classify" /\ mode = "sql"
    /\ \E o \in ClassifierOutcomes :
          LET is_safe == check_injection(o)
          IN  /\ classification' = is_safe
              /\ IF SqlRoute(is_safe) = "reject"
                 THEN /\ result' = RejectUnsafeResult(user_query)
                      /\ pc' = "done"
                 ELSE /\ result' = result
                      /\ pc' = "get_schema_context"
    /\ trace' = Append(trace, "classifier")
    /\ UNCHANGED <<mode, user_query, schema_context, retrieved_chunks, reasoning, sql_query,
                   is_valid_sql, valid_sql_query, columns, results, formatted_response,
                   ghosts, stores, fault, unitVars>>

\* Step 1, first call: get_schema_context(user_query, top_k)
\* (query_chain.py:73 and 220).  The store's query may raise.
GetSchemaContext ==
    /\ pc = "get_schema_context"
    /\ trace' = Append(trace, "get_schema_context")
    /\ \E embOk \in BOOLEAN, storeRaises \in BOOLEAN :
          IF embOk /\ storeRaises
          THEN /\ result' = ExceptionResult(mode, user_query, E_STORE)
               /\ fault' = E_STORE
               /\ pc' = "done"
               /\ schema_context' = schema_context
          ELSE /\ schema_context' =
                    get_schema_context(retrieve_chunks(collection, user_query, TOP_K, embOk))
               /\ pc' = "retrieve_chunks"
               /\ result' = result
               /\ fault' = fault
    /\ UNCHANGED <<mode, user_query, classification, retrieved_chunks, reasoning, sql_query,
                   is_valid_sql, valid_sql_query, columns, results, formatted_response,
                   ghosts, stores, unitVars>>

\* Step 1, second call: retrieve_chunks(user_query, top_k) (query_chain.py:74 and 221).
RetrieveChunks ==
    /\ pc = "retrieve_chunks"
    /\ trace' = Append(trace, "retrieve_chunks")
    /\ \E embOk \in BOOLEAN, storeRaises \in BOOLEAN :
          IF embOk /\ storeRaises
          THEN /\ result' = ExceptionResult(mode, user_query, E_STORE)
               /\ fault' = E_STORE
               /\ pc' = "done"
               /\ retrieved_chunks' = retrieved_chunks
          ELSE /\ retrieved_chunks' = retrieve_chunks(collection, user_query, TOP_K, embOk)
               /\ pc' = "reason"
               /\ result' = result
               /\ fault' = fault
    /\ UNCHANGED <<mode, user_query, classification, schema_context, reasoning, sql_query,
                   is_valid_sql, valid_sql_query, columns, results, formatted_response,
                   ghosts, stores, unitVars>>

\* Step 2: generate_reasoning (query_chain.py:80 and 227).
Reason ==
    /\ pc = "reason"
    /\ \E o \in ReasoningOutcomes : reasoning' = generate_reasoning(o)
    /\ trace' = Append(trace, "reasoning")
    /\ pc' = "generate"
    /\ UNCHANGED <<mode, user_query, classification, schema_context, retrieved_chunks,
                   sql_query, is_valid_sql, valid_sql_query, columns, results,
                   formatted_response, result, ghosts, stores, fault, unitVars>>

\* Step 3: generate_sql (query_chain.py:86 and 233).
Generate ==
    /\ pc = "generate"
    /\ \E o \in GeneratorOutcomes : sql_query' = generate_sql(o)
    /\ trace' = Append(trace, "generation")
    /\ pc' = "validate"
    /\ UNCHANGED <<mode, user_query, classification, schema_context, retrieved_chunks,
                   reasoning, is_valid_sql, valid_sql_query, columns, results,
                   formatted_response, result, ghosts, stores, fault, unitVars>>

\* Where the request goes once the final SQL is fixed: the Executor in
\* process_query_with_execution, the response in process_query.
AfterSql_always_execute(m) == "execute"

AfterSql(m) == IF m = "exec" THEN "execute" ELSE "respond"

\* The branch on is_valid_sql (query_chain.py:93-97 and 240-244).
NextAfterValidate(valid, m) == IF valid THEN AfterSql(m) ELSE "correct"

NextAfterRevalidate_retry(corrected_valid, m) ==
    IF corrected_valid THEN AfterSql(m) ELSE "correct"

\* After the validation of the corrected SQL (query_chain.py:107-111 and
\* 254-258): both outcomes only log.
NextAfterRevalidate(corrected_valid, m) == AfterSql(m)

\* Step 4: validate_sql_syntax(sql_query) (query_chain.py:91-95 and 238-242).
Validate ==
    /\ pc = "validate"
    /\ LET valid == is_syntax_valid(sql_query)
       IN  /\ is_valid_sql' = valid
           /\ valid_sql_query' = IF valid THEN sql_query ELSE valid_sql_query
           /\ pc' = NextAfterValidate(valid, mode)
    /\ trace' = Append(trace, "validation")
    /\ UNCHANGED <<mode, user_query, classification, schema_context, retrieved_chunks,
                   reasoning, sql_query, columns, results, formatted_response, result,
                   ghosts, stores, fault, unitVars>>

\* Step 4, else branch: correct_sql (query_chain.py:100-104 and 247-251).
Correct ==
    /\ pc = "correct"
    /\ \E o \in CorrectorOutcomes : valid_sql_query' = correct_sql(o)
    /\ trace' = Append(trace, "correction")
    /\ pc' = "revalidate"
    /\ UNCHANGED <<mode, user_query, classification, schema_context, retrieved_chunks,
                   reasoning, sql_query, is_valid_sql, columns, results, formatted_response,
                   result, ghosts, stores, fault, unitVars>>

FinalSql_original_on_failure(corrected_valid, corrected, original) ==
    IF corrected_valid THEN corrected ELSE original

\* valid_sql_query after the validation of the corrected SQL
\* (query_chain.py:107-111 and 254-258): neither branch assigns it.
FinalSql(corrected_valid, corrected, original) == corrected

\* Step 4, else branch: validate_sql_syntax(valid_sql_query) (query_chain.py:107-111
\* and 254-258).
Revalidate ==
    /\ pc = "revalidate"
    /\ LET is_corrected_valid == is_syntax_valid(valid_sql_query)
       IN  /\ valid_sql_query' = FinalSql(is_corrected_valid, valid_sql_query, sql_query)
           /\ pc' = NextAfterRevalidate(is_corrected_valid, mode)
    /\ trace' = Append(trace, "validation")
    /\ UNCHANGED <<mode, user_query, classification, schema_context, retrieved_chunks,
                   reasoning, sql_query, is_valid_sql, columns, results,
                   formatted_response, result, ghosts, stores, fault, unitVars>>

\* Step 5: execute_query(valid_sql_query) (query_chain.py:115).
Execute ==
    /\ pc = "execute"
    /\ \E db \in DbOutcomes :
          LET r == execute_query(valid_sql_query, db)
          IN  /\ commits' = IF r.committed THEN Append(commits, valid_sql_query) ELSE commits
              /\ open_connections' = open_connections + (IF r.conn_left_open THEN 1 ELSE 0)
              /\ IF r.raised
                 THEN /\ result' = ExceptionResult(mode, user_query, E_CLOSE)
                      /\ fault' = E_CLOSE
                      /\ pc' = "done"
                      /\ UNCHANGED <<columns, results>>
                 ELSE /\ columns' = r.columns
                      /\ results' = r.results
                      /\ pc' = "after_execute"
                      /\ result' = result
                      /\ fault' = fault
    /\ trace' = Append(trace, "executor")
    /\ execArgs' = Append(execArgs, valid_sql_query)
    /\ UNCHANGED <<mode, user_query, classification, schema_context, retrieved_chunks,
                   reasoning, sql_query, is_valid_sql, valid_sql_query, formatted_response,
                   fmtArgs, collection, unitVars>>

IsDatabaseError_db_only(cols, res) ==
    cols.t = "None" /\ res.t = "str" /\ StartsWith(res.v, DB_ERROR_MARK)

\* The test of query_chain.py:118.
IsDatabaseError(cols, res) ==
    /\ cols.t = "None"
    /\ res.t = "str"
    /\ (StartsWith(res.v, DB_ERROR_MARK) \/ StartsWith(res.v, UNEXPECTED_MARK))

FormatCall(cols, res, error_message, total_rows, f) ==
    [columns |-> cols, results |-> res, error_message |-> error_message,
     total_rows |-> total_rows, branch |-> f.branch, sample |-> f.sample, text |-> f.text]

\* The database-error branch (query_chain.py:118-135).
FormatError ==
    /\ pc = "after_execute"
    /\ IsDatabaseError(columns, results)
    /\ \E o \in FormatterOutcomes :
          LET f == format_query_results(user_query, valid_sql_query, PyNone, PyList(<< >>),
                                        results, PyNone, o)
          IN  /\ fmtArgs' = Append(fmtArgs, FormatCall(PyNone, PyList(<< >>), results, PyNone, f))
              /\ IF f.raised
                 THEN /\ result' = ExceptionResult(mode, user_query, E_JOIN)
                      /\ fault' = E_JOIN
                      /\ formatted_response' = formatted_response
                 ELSE /\ formatted_response' = f.text
                      /\ fault' = fault
                      /\ result' = [status |-> "error", error_type |-> "database_execution",
                                    error_message |-> results.v, user_query |-> user_query,
                                    sql_query |-> valid_sql_query,
                                    formatted_response |-> f.text]
    /\ pc' = "done"
    /\ trace' = Append(trace, "formatter")
    /\ UNCHANGED <<mode, user_query, classification, schema_context, retrieved_chunks,
                   reasoning, sql_query, is_valid_sql, valid_sql_query, columns, results,
                   execArgs, stores, unitVars>>

LlmResults_uncapped(res) == res

\* llm_results (query_chain.py:141)
LlmResults(res) ==
    IF PyTruthy(res) /\ PyLen(res) > LLM_ROW_CAP THEN PySlice(res, LLM_ROW_CAP) ELSE res

\* actual_row_count (query_chain.py:142)
ActualRowCount(res) == IF PyTruthy(res) THEN PyLen(res) ELSE 0

\* Step 6: the normal formatting path (query_chain.py:137-150).
FormatResults ==
    /\ pc = "after_execute"
    /\ ~IsDatabaseError(columns, results)
    /\ \E o \in FormatterOutcomes :
          LET llm_results == LlmResults(results)
              passed == IF PyTruthy(llm_results) THEN llm_results ELSE PyList(<< >>)
              total == PyInt(ActualRowCount(results))
              f == format_query_results(user_query, valid_sql_query, columns, passed,
                                        PyNone, total, o)
          IN  /\ fmtArgs' = Append(fmtArgs, FormatCall(columns, passed, PyNone, total, f))
              /\ IF f.raised
                 THEN /\ result' = ExceptionResult(mode, user_query, E_JOIN)
                      /\ fault' = E_JOIN
                      /\ pc' = "done"
                      /\ formatted_response' = formatted_response
                 ELSE /\ formatted_response' = f.text
                      /\ fault' = fault
                      /\ pc' = "respond"
                      /\ result' = result
    /\ trace' = Append(trace, "formatter")
    /\ UNCHANGED <<mode, user_query, classification, schema_context, retrieved_chunks,
                   reasoning, sql_query, is_valid_sql, valid_sql_query, columns, results,
                   execArgs, stores, unitVars>>

\* execution_results.data (query_chain.py:163)
ResponseData(res) == IF PyTruthy(res) THEN res ELSE PyList(<< >>)

\* The success response of process_query_with_execution (query_chain.py:152-182).
RespondExec ==
    /\ pc = "respond" /\ mode = "exec"
    /\ result' =
          [status |-> "success",
           user_query |-> user_query,
           sql_query |-> valid_sql_query,
           execution_results |->
              [columns |-> columns,
               row_count |-> IF PyTruthy(results) THEN PyLen(results) ELSE 0,
               data |-> ResponseData(results),
               has_more_data |-> FALSE],
           formatted_response |-> formatted_response,
           summary |-> get_result_summary(PyOrEmptyList(columns), PyOrEmptyList(results)),
           retrieved_chunks |-> ChunkDicts(retrieved_chunks),
           reasoning |-> reasoning,
           was_sql_corrected |-> ~is_valid_sql,
           is_sql_valid |-> is_syntax_valid(valid_sql_query),
           security_check_passed |-> TRUE]
    /\ trace' = trace \o <<"summary", "validation">>
    /\ pc' = "done"
    /\ UNCHANGED <<mode, user_query, locals, ghosts, stores, fault, unitVars>>

\* The success response of process_query (query_chain.py:260-280).
RespondSql ==
    /\ pc = "respond" /\ mode = "sql"
    /\ result' =
          [status |-> "success",
           user_query |-> user_query,
           retrieved_chunks |-> ChunkDicts(retrieved_chunks),
           schema_context |-> schema_context,
           reasoning |-> reasoning,
           original_sql |-> sql_query,
           sql_query |-> valid_sql_query,
           was_corrected |-> ~is_valid_sql,
           is_valid |-> is_syntax_valid(valid_sql_query),
           security_check_passed |-> TRUE]
    /\ trace' = Append(trace, "validation")
    /\ pc' = "done"
    /\ UNCHANGED <<mode, user_query, locals, ghosts, stores, fault, unitVars>>

Next ==
    \/ Enter
    \/ ClassifyExec
    \/ ClassifySql
    \/ GetSchemaContext
    \/ RetrieveChunks
    \/ Reason
    \/ Generate
    \/ Validate
    \/ Correct
    \/ Revalidate
    \/ Execute
    \/ FormatError
    \/ FormatResults
    \/ RespondExec
    \/ RespondSql

Spec == Init /\ [][Next]_vars

-----------------------------------------------------------------------------
(* check_injection on its own: every generator outcome, then the call *)

InitCI ==
    /\ mode = "none"
    /\ pc = "idle"
    /\ user_query = ""
    /\ classification = ""
    /\ schema_context = << >>
    /\ retrieved_chunks = << >>
    /\ reasoning = << >>
    /\ sql_query = << >>
    /\ is_valid_sql = FALSE
    /\ valid_sql_query = << >>
    /\ columns = PyNone
    /\ results = PyNone
    /\ formatted_response = << >>
    /\ result = NoResult
    /\ trace = << >>
    /\ fmtArgs = << >>
    /\ execArgs = << >>
    /\ collection = _populate_collection({})
    /\ commits = << >>
    /\ open_connections = 0
    /\ fault = ""
    /\ ci_in \in ClassifierOutcomes
    /\ ci_out = ""
    /\ UnitsIdle

CallCheckInjection ==
    /\ ci_out = ""
    /\ ci_out' = check_injection(ci_in)
    /\ UNCHANGED <<pipeVars, ci_in, vsVars, adminVars, frameVars>>

NextCI == CallCheckInjection

SpecCI == InitCI /\ [][NextCI]_vars

-----------------------------------------------------------------------------
(* validate_sql_syntax on its own: every short text, then the call *)

\* Longest text, in characters, given to validate_sql_syntax.
MaxSqlLen == 3

SqlChars == {" ", "\n", ";", "x"}

SELECT_1 == <<"S","E","L","E","C","T"," ","1",";">>

ValidatorInputs ==
    [sql : SeqsUpTo(SqlChars, MaxSqlLen) \cup {SELECT_1}, parserRaises : BOOLEAN]

InitVS ==
    /\ PipelineIdle
    /\ collection = _populate_collection({})
    /\ ci_in = GenFail
    /\ ci_out = ""
    /\ vs_in \in ValidatorInputs
    /\ vs_out = NotCalled
    /\ handle = "live"
    /\ upd = [c \in Callers |-> NoUpdate]
    /\ pop = NoPopulate
    /\ clr = "idle"
    /\ last_call = NoCall
    /\ frames = [r \in Requests |-> IdleFrame]

CallValidateSqlSyntax ==
    /\ ~vs_out.returned
    /\ LET r == validate_sql_syntax_call(vs_in.sql, vs_in.parserRaises)
       IN  vs_out' = [returned |-> TRUE, raised |-> r.raised, value |-> r.value]
    /\ UNCHANGED <<pipeVars, ciVars, vs_in, adminVars, frameVars>>

NextVS == CallValidateSqlSyntax

SpecVS == InitVS /\ [][NextVS]_vars

-----------------------------------------------------------------------------
(* The retriever called by one caller at a time: administrative calls on the *)
(* chunk store and get_schema_context, each call run to its return.          *)

\* Largest k given to get_schema_context.
MaxK == 3

\* What a retrieval call remembers of the call that returned before it.
PrevCall(lc) ==
    IF lc.kind = "update_schema_chunk"
    THEN [kind |-> lc.kind, chunk_id |-> lc.chunk_id, content |-> lc.content, stored |-> lc.stored]
    ELSE [kind |-> "other", chunk_id |-> "", content |-> "", stored |-> FALSE]

InitRetrieve ==
    /\ PipelineIdle
    /\ \E okIds \in SUBSET {"july_HCPs", "july_interactions", "database_context"} :
          collection = _populate_collection(okIds)
    /\ ci_in = GenFail
    /\ ci_out = ""
    /\ UnitsIdle

\* update_schema_chunk(chunk_id, content) (rag_retriever.py:183-204).  The
\* upsert raises on a collection that was deleted.
CallUpdateSchemaChunk ==
    /\ \E chunk_id \in UpdateIds, content \in UpdateContents, embOk \in BOOLEAN :
          LET embedding == _get_embedding(content, embOk)
              raises == embedding # << >> /\ handle = "dropped"
          IN  /\ collection' = IF raises THEN collection
                                ELSE update_schema_chunk(collection, chunk_id, content, embedding)
              /\ last_call' = [kind |-> "update_schema_chunk", chunk_id |-> chunk_id,
                                content |-> content, embOk |-> embOk,
                                stored |-> embedding # << >> /\ ~raises,
                                raised |-> raises, store_before |-> collection]
    /\ UNCHANGED <<requestVars, frameVars, ciVars, vsVars, handle, upd, pop, clr>>

\* delete_schema_chunk(chunk_id) (rag_retriever.py:206-217): a failure of the
\* store's delete is caught and logged.
CallDeleteSchemaChunk ==
    /\ \E chunk_id \in ChunkIds :
          /\ collection' = IF handle = "dropped" THEN collection
                            ELSE delete_schema_chunk(collection, chunk_id)
          /\ last_call' = [kind |-> "delete_schema_chunk", chunk_id |-> chunk_id]
    /\ UNCHANGED <<requestVars, frameVars, ciVars, vsVars, handle, upd, pop, clr>>

\* clear_collection() (rag_retriever.py:233-241): delete_collection, then
\* create_collection; a failure of either is caught and logged.
CallClearCollection ==
    /\ \E deleteOk \in BOOLEAN, createOk \in BOOLEAN :
          IF handle = "dropped" \/ ~deleteOk
          THEN /\ UNCHANGED <<collection, handle>>
               /\ last_call' = [kind |-> "clear_collection", cleared |-> FALSE]
          ELSE /\ collection' = _populate_collection({})
               /\ handle' = IF createOk THEN "live" ELSE "dropped"
               /\ last_call' = [kind |-> "clear_collection", cleared |-> TRUE]
    /\ UNCHANGED <<requestVars, frameVars, ciVars, vsVars, upd, pop, clr>>

\* get_schema_context(query, k) (rag_retriever.py:271-291), with the
\* retrieve_chunks call inside it.  collection.query is outside any try: it
\* raises on a deleted collection and whenever the store fails.
CallGetSchemaContext ==
    /\ \E query \in Queries, k \in 1..MaxK, embOk \in BOOLEAN, storeRaises \in BOOLEAN :
          LET queried == retrieve_chunks_queries_store(query, embOk)
              raises == queried /\ (storeRaises \/ handle = "dropped")
              chunks == IF raises THEN << >> ELSE retrieve_chunks(collection, query, k, embOk)
          IN  last_call' = [kind |-> "get_schema_context", query |-> query, k |-> k,
                            embOk |-> embOk, queried |-> queried, raised |-> raises,
                            chunks |-> chunks,
                            context |-> IF raises THEN << >> ELSE get_schema_context(chunks),
                            prev |-> PrevCall(last_call)]
    /\ UNCHANGED <<requestVars, frameVars, collection, ciVars, vsVars, handle, upd, pop, clr>>

NextRetrieve ==
    \/ CallUpdateSchemaChunk
    \/ CallDeleteSchemaChunk
    \/ CallClearCollection
    \/ CallGetSchemaContext

SpecRetrieve == InitRetrieve /\ [][NextRetrieve]_vars

-----------------------------------------------------------------------------
(* The chunk store under two concurrent callers.  An update_schema_chunk     *)
(* call is two steps, the embedding call and the upsert; clear_collection is *)
(* two steps, delete_collection and create_collection; a retriever built on  *)
(* an empty collection populates it in two steps, the embedding calls and    *)
(* the add.  Each call on the store itself is one step.                      *)

InitAdmin ==
    /\ PipelineIdle
    /\ \E okIds \in {{}, {"july_HCPs", "july_interactions", "database_context"}} :
          collection = _populate_collection(okIds)
    /\ ci_in = GenFail
    /\ ci_out = ""
    /\ UnitsIdle

\* rag_retriever.py:193: embedding = self._get_embedding(content)
UpdateEmbed(c) ==
    /\ upd[c].pc \in {"idle", "returned"}
    /\ \E chunk_id \in UpdateIds, content \in UpdateContents, embOk \in BOOLEAN :
          upd' = [upd EXCEPT ![c] = [pc |-> "upsert", chunk_id |-> chunk_id, content |-> content,
                                     embedding |-> _get_embedding(content, embOk),
                                     stored |-> FALSE, overlapped |-> FALSE]]
    /\ UNCHANGED <<requestVars, frameVars, collection, ciVars, vsVars, handle, pop, clr, last_call>>

\* rag_retriever.py:194-204: the upsert, or the error log.  The upsert raises
\* on a collection that was deleted.  A caller still between its embedding
\* call and its upsert of the same id is marked as overlapped.
UpdateUpsert(c) ==
    /\ upd[c].pc = "upsert"
    /\ LET u == upd[c]
           raises == u.embedding # << >> /\ handle = "dropped"
           stored == u.embedding # << >> /\ ~raises
       IN  /\ collection' = IF raises THEN collection
                             ELSE update_schema_chunk(collection, u.chunk_id, u.content, u.embedding)
           /\ upd' = [d \in Callers |->
                        IF d = c THEN [u EXCEPT !.pc = "returned", !.stored = stored]
                        ELSE IF stored /\ upd[d].pc = "upsert" /\ upd[d].chunk_id = u.chunk_id
                             THEN [upd[d] EXCEPT !.overlapped = TRUE]
                        ELSE upd[d]]
    /\ UNCHANGED <<requestVars, frameVars, ciVars, vsVars, handle, pop, clr, last_call>>

\* delete_schema_chunk(chunk_id)
DeleteChunk ==
    /\ \E chunk_id \in UpdateIds :
          collection' = IF handle = "dropped" THEN collection
                        ELSE delete_schema_chunk(collection, chunk_id)
    /\ UNCHANGED <<requestVars, frameVars, ciVars, vsVars, handle, upd, pop, clr, last_call>>

\* rag_retriever.py:237: self.client.delete_collection(...)
ClearDelete ==
    /\ clr = "idle"
    /\ \E deleteOk \in BOOLEAN :
          IF handle = "dropped" \/ ~deleteOk
          THEN UNCHANGED <<collection, handle, clr>>
          ELSE /\ collection' = _populate_collection({})
               /\ handle' = "dropped"
               /\ clr' = "deleted"
    /\ UNCHANGED <<requestVars, frameVars, ciVars, vsVars, upd, pop, last_call>>

\* rag_retriever.py:238: self.collection = self.client.create_collection(...)
ClearCreate ==
    /\ clr = "deleted"
    /\ \E createOk \in BOOLEAN : handle' = IF createOk THEN "live" ELSE "dropped"
    /\ clr' = "idle"
    /\ UNCHANGED <<requestVars, frameVars, collection, ciVars, vsVars, upd, pop, last_call>>

\* _initialize_collection finds the collection empty and _populate_collection
\* makes its embedding calls (rag_retriever.py:49-54, 161-171).
PopulateEmbed ==
    /\ pop.pc = "idle" /\ clr = "idle" /\ handle = "live"
    /\ DOMAIN collection = {}
    /\ \E okIds \in SUBSET {"july_HCPs", "july_interactions", "database_context"} :
          pop' = [pc |-> "add", okIds |-> okIds]
    /\ UNCHANGED <<requestVars, frameVars, collection, ciVars, vsVars, handle, upd, clr, last_call>>

\* rag_retriever.py:173-181: the add of the chunks that got an embedding.  An
\* add that meets an id stored meanwhile either keeps the stored record or
\* raises and adds nothing.
PopulateAdd ==
    /\ pop.pc = "add"
    /\ \E addRaises \in BOOLEAN :
          collection' = IF pop.okIds = {} \/ handle = "dropped"
                           \/ (addRaises /\ pop.okIds \cap DOMAIN collection # {})
                        THEN collection
                        ELSE collection_add(collection, pop.okIds)
    /\ pop' = NoPopulate
    /\ UNCHANGED <<requestVars, frameVars, ciVars, vsVars, handle, upd, clr, last_call>>

NextAdmin ==
    \/ \E c \in Callers : UpdateEmbed(c)
    \/ \E c \in Callers : UpdateUpsert(c)
    \/ DeleteChunk
    \/ ClearDelete
    \/ ClearCreate
    \/ PopulateEmbed
    \/ PopulateAdd

SpecAdmin == InitAdmin /\ [][NextAdmin]_vars

-----------------------------------------------------------------------------
(* Two requests inside process_query_with_execution on one chain instance *)

\* A step that consumes no external response.
NoResponse == [none |-> TRUE]

FrameOf_sql_on_instance(fs, r) ==
    [fs[r] EXCEPT !.valid_sql_query = fs["r1"].valid_sql_query]

\* The local variables a request's next statement reads: those of its own call
\* (query_chain.py:39-182 assigns names local to the call and no attribute of self).
FrameOf(fs, r) == fs[r]

\* The success dict of process_query_with_execution (query_chain.py:152-179).
SuccessResultExec(f) ==
    [status |-> "success",
     user_query |-> f.user_query,
     sql_query |-> f.valid_sql_query,
     execution_results |->
        [columns |-> f.columns,
         row_count |-> IF PyTruthy(f.results) THEN PyLen(f.results) ELSE 0,
         data |-> ResponseData(f.results),
         has_more_data |-> FALSE],
     formatted_response |-> f.formatted_response,
     summary |-> get_result_summary(PyOrEmptyList(f.columns), PyOrEmptyList(f.results)),
     retrieved_chunks |-> ChunkDicts(f.retrieved_chunks),
     reasoning |-> f.reasoning,
     was_sql_corrected |-> ~f.is_valid_sql,
     is_sql_valid |-> is_syntax_valid(f.valid_sql_query),
     security_check_passed |-> TRUE]

\* One stage of process_query_with_execution (query_chain.py:39-194) on the
\* locals f of a call: the store coll is what the stage reads of the shared
\* state, o is what the external service answers (the caller's query on
\* entry), and the answer is appended to the call's log.
Stage(f, coll, o) ==
    LET g == [f EXCEPT !.log = Append(@, o)]
        q == f.user_query
    IN  CASE f.pc = "idle" ->
               [g EXCEPT !.user_query = o, !.pc = "classify"]
          [] f.pc = "classify" ->
               LET c == check_injection(o)
               IN  CASE ExecRoute(c) = "reject_injection" ->
                          [g EXCEPT !.classification = c, !.pc = "done",
                                    !.result = RejectInjectionResult(q)]
                     [] ExecRoute(c) = "reject_unrelated" ->
                          [g EXCEPT !.classification = c, !.pc = "done",
                                    !.result = RejectUnrelatedResult(q)]
                     [] OTHER ->
                          [g EXCEPT !.classification = c, !.pc = "get_schema_context"]
          [] f.pc = "get_schema_context" ->
               IF o.embOk /\ o.storeRaises
               THEN [g EXCEPT !.pc = "done", !.result = ExceptionResultExec(q, E_STORE)]
               ELSE [g EXCEPT !.schema_context =
                                  get_schema_context(retrieve_chunks(coll, q, TOP_K, o.embOk)),
                              !.pc = "retrieve_chunks"]
          [] f.pc = "retrieve_chunks" ->
               IF o.embOk /\ o.storeRaises
               THEN [g EXCEPT !.pc = "done", !.result = ExceptionResultExec(q, E_STORE)]
               ELSE [g EXCEPT !.retrieved_chunks = retrieve_chunks(coll, q, TOP_K, o.embOk),
                              !.pc = "reason"]
          [] f.pc = "reason" ->
               [g EXCEPT !.reasoning = generate_reasoning(o), !.pc = "generate"]
          [] f.pc = "generate" ->
               [g EXCEPT !.sql_query = generate_sql(o), !.pc = "validate"]
          [] f.pc = "validate" ->
               LET valid == is_syntax_valid(f.sql_query)
               IN  [g EXCEPT !.is_valid_sql = valid,
                             !.valid_sql_query = IF valid THEN f.sql_query ELSE @,
                             !.pc = NextAfterValidate(valid, "exec")]
          [] f.pc = "correct" ->
               [g EXCEPT !.valid_sql_query = correct_sql(o), !.pc = "revalidate"]
          [] f.pc = "revalidate" ->
               LET is_corrected_valid == is_syntax_valid(f.valid_sql_query)
               IN  [g EXCEPT !.valid_sql_query = FinalSql(is_corrected_valid, @, f.sql_query),
                             !.pc = NextAfterRevalidate(is_corrected_valid, "exec")]
          [] f.pc = "execute" ->
               LET r == execute_query(f.valid_sql_query, o)
               IN  IF r.raised
                   THEN [g EXCEPT !.pc = "done", !.result = ExceptionResultExec(q, E_CLOSE)]
                   ELSE [g EXCEPT !.columns = r.columns, !.results = r.results,
                                  !.pc = "after_execute"]
          [] f.pc = "after_execute" ->
               IF IsDatabaseError(f.columns, f.results)
               THEN LET t == format_query_results(q, f.valid_sql_query, PyNone, PyList(<< >>),
                                                  f.results, PyNone, o)
                    IN  [g EXCEPT !.formatted_response = t.text, !.pc = "done",
                                  !.result = [status |-> "error",
                                              error_type |-> "database_execution",
                                              error_message |-> f.results.v,
                                              user_query |-> q,
                                              sql_query |-> f.valid_sql_query,
                                              formatted_response |-> t.text]]
               ELSE LET llm_results == LlmResults(f.results)
                        t == format_query_results(
                                 q, f.valid_sql_query, f.columns,
                                 IF PyTruthy(llm_results) THEN llm_results ELSE PyList(<< >>),
                                 PyNone, PyInt(ActualRowCount(f.results)), o)
                    IN  IF t.raised
                        THEN [g EXCEPT !.pc = "done",
                                       !.result = ExceptionResultExec(q, E_JOIN)]
                        ELSE [g EXCEPT !.formatted_response = t.text, !.pc = "respond"]
          [] f.pc = "respond" ->
               LET h == [g EXCEPT !.pc = "done"]
               IN  [h EXCEPT !.result = SuccessResultExec(h)]
          [] OTHER -> f

\* The call run on its own: its stages applied one after another to the
\* responses of log, starting from the locals f.
RECURSIVE Replay(_, _, _)
Replay(f, log, coll) ==
    IF log = << >> THEN f ELSE Replay(Stage(f, coll, Head(log)), Tail(log), coll)

\* What the external services may answer to the stage at pc.
StageResponses(at) ==
    CASE at = "idle" -> Queries
      [] at = "classify" -> {GenText(W_valid), GenText(W_injection)}
      [] at = "get_schema_context" -> [embOk : BOOLEAN, storeRaises : {FALSE}]
      [] at = "retrieve_chunks" -> [embOk : {TRUE}, storeRaises : {FALSE}]
      [] at = "reason" -> {GenText(<<"1. Use table july_HCPs. 2. Filter isconsultant = TRUE.">>)}
      [] at = "generate" ->
            {GenText(<<"S","E","L","E","C","T"," ","1",";">>), GenText(<< >>),
             GenText(<<"D","E","L","E","T","E"," ","F","R","O","M"," ","t">>)}
      [] at = "correct" -> {GenText(<<"S","E","L","E","C","T"," ","1">>), GenText(<< >>)}
      [] at = "execute" ->
            {db \in DbOutcomes : Len(db.rows) <= 1 /\ db.kind # "unexpected" /\ ~db.closeRaises}
      [] at = "after_execute" -> {GenText(<<"Here is what I found.">>)}
      [] OTHER -> {NoResponse}

InitConcurrent ==
    /\ PipelineIdle
    /\ collection = _populate_collection({"july_HCPs", "july_interactions", "database_context"})
    /\ ci_in = GenFail
    /\ ci_out = ""
    /\ UnitsIdle

\* Request r runs its next stage; every other request stays where it is.
StepRequest(r) ==
    /\ frames[r].pc # "done"
    /\ \E o \in StageResponses(frames[r].pc) :
          LET f == FrameOf(frames, r)
              x == IF f.pc = "execute" THEN execute_query(f.valid_sql_query, o)
                   ELSE [committed |-> FALSE, conn_left_open |-> FALSE]
          IN  /\ frames' = [frames EXCEPT ![r] = Stage(f, collection, o)]
              /\ commits' = IF x.committed THEN Append(commits, f.valid_sql_query) ELSE commits
              /\ open_connections' = open_connections + (IF x.conn_left_open THEN 1 ELSE 0)
    /\ UNCHANGED <<mode, pc, user_query, locals, result, trace, ghosts, fault, collection,
                   ciVars, vsVars, adminVars>>

NextConcurrent == \E r \in Requests : StepRequest(r)

SpecConcurrent == InitConcurrent /\ [][NextConcurrent]_vars

-----------------------------------------------------------------------------
(* format_query_results on its own: every small input, then the call *)

\* Most rows passed to format_query_results by a direct caller.
MaxFmtRows == 12

\* The arguments process_query_with_execution builds for the formatter from
\* what the executor returned (query_chain.py:141-150).
ChainFormatArgs(cols, res) ==
    LET llm_results == LlmResults(res)
    IN  [columns |-> cols,
         results |-> IF PyTruthy(llm_results) THEN llm_results ELSE PyList(<< >>),
         error_message |-> PyNone,
         total_rows |-> PyInt(ActualRowCount(res))]

\* Inputs of format_query_results: those a direct caller may pass, and those
\* the chain passes for a SELECT of up to MaxRows rows (executed holds the
\* executor's rows).
FormatterInputs ==
    [origin : {"direct"}, executed : {PyNone},
     columns : {PyNone, PyList(<<"id">>)},
     results : {PyList(RowsOf(n, ord)) : n \in 0..MaxFmtRows, ord \in {"asc", "desc"}},
     error_message : {PyNone, PyStr(<< >>), PyStr(DB_ERROR_PREFIX \o <<"1","1","4","6">>)},
     total_rows : {PyNone} \cup {PyInt(t) : t \in 0..(MaxFmtRows + 2)},
     o : FormatterOutcomes]
    \cup
    {LET res == PyList(RowsOf(R, ord))
         a == ChainFormatArgs(PyList(<<"id">>), res)
     IN  [origin |-> "chain", executed |-> res, columns |-> a.columns, results |-> a.results,
          error_message |-> a.error_message, total_rows |-> a.total_rows, o |-> o]
       : R \in 0..MaxRows, ord \in {"asc", "desc"}, o \in FormatterOutcomes}

InitFormat ==
    /\ PipelineIdle
    /\ collection = _populate_collection({})
    /\ ci_in = GenFail
    /\ ci_out = ""
    /\ vs_in = [sql |-> << >>, parserRaises |-> FALSE]
    /\ vs_out = NotCalled
    /\ handle = "live"
    /\ upd = [c \in Callers |-> NoUpdate]
    /\ pop = NoPopulate
    /\ clr = "idle"
    /\ frames = [r \in Requests |-> IdleFrame]
    /\ \E a \in FormatterInputs : last_call = [kind |-> "pending", args |-> a]

\* format_query_results(user_query, sql_query, columns, results, error_message,
\* total_rows) (result_formatter_llm.py:44-100).
CallFormatQueryResults ==
    /\ last_call.kind = "pending"
    /\ LET a == last_call.args
       IN  last_call' = [kind |-> "format_query_results", args |-> a,
                         out |-> format_query_results("Show all consultants", << >>, a.columns,
                                                      a.results, a.error_message,
                                                      a.total_rows, a.o)]
    /\ UNCHANGED <<pipeVars, ciVars, vsVars, frameVars, handle, upd, pop, clr>>

NextFormat == CallFormatQueryResults

SpecFormat == InitFormat /\ [][NextFormat]_vars

-----------------------------------------------------------------------------
(* _extract_sql and _extract_sql_clean on their own: every small response *)

\* Most pieces in a generator response given to _extract_sql.
MaxPieces == 3

\* Most lines in a corrector response given to _extract_sql_clean.
MaxLines == 4

\* Pieces the SQL generator's response is assembled from.
ExtractPieces ==
    { <<"S","u","r","e",":"," ">>,
      <<"S","E","L","E","C","T"," ","1">>,
      <<"d","e","l","e","t","e"," ","f","r","o","m"," ","t">>,
      <<"u","p","d","a","t","e"," ","t"," ","s","e","t"," ","a"," ","="," ","2"," ">>,
      <<" ">>,
      <<"\n">>, <<";">>, FENCE_SQL, FENCE }

\* Lines the corrector's response is assembled from.
CleanLines ==
    { <<"n","o","t","e","\n">>,
      <<"S","E","L","E","C","T"," ","1","\n">>,
      <<"F","R","O","M"," ","t",";","\n">>,
      <<"U","p","d","a","t","e","d"," ","q","u","e","r","y",":","\n">>,
      <<"s","e","e"," ","s","e","l","e","c","t"," ","2",";"," ","o","k","\n">>,
      <<"\n">>,
      FENCE_SQL \o <<"\n">>, FENCE \o <<"\n">> }

ExtractResponses == {Flatten(ps) : ps \in SeqsUpTo(ExtractPieces, MaxPieces)}

CleanResponses == {Flatten(ls) : ls \in SeqsUpTo(CleanLines, MaxLines)}

InitExtract ==
    /\ PipelineIdle
    /\ collection = _populate_collection({})
    /\ ci_in = GenFail
    /\ ci_out = ""
    /\ vs_in = [sql |-> << >>, parserRaises |-> FALSE]
    /\ vs_out = NotCalled
    /\ handle = "live"
    /\ upd = [c \in Callers |-> NoUpdate]
    /\ pop = NoPopulate
    /\ clr = "idle"
    /\ frames = [r \in Requests |-> IdleFrame]
    /\ \/ \E t \in ExtractResponses :
             last_call = [kind |-> "pending", fn |-> "_extract_sql", response |-> t]
       \/ \E t \in CleanResponses :
             last_call = [kind |-> "pending", fn |-> "_extract_sql_clean", response |-> t]

\* SQLGeneratorLLM._extract_sql(response) (llm_models.py:366-384).
CallExtractSql ==
    /\ last_call.kind = "pending"
    /\ last_call.fn = "_extract_sql"
    /\ last_call' = [kind |-> "_extract_sql", response |-> last_call.response,
                     out |-> _extract_sql(last_call.response)]
    /\ UNCHANGED <<pipeVars, ciVars, vsVars, frameVars, handle, upd, pop, clr>>

\* SQLCorrectorLLM._extract_sql_clean(response) (llm_models.py:415-470).
CallExtractSqlClean ==
    /\ last_call.kind = "pending"
    /\ last_call.fn = "_extract_sql_clean"
    /\ last_call' = [kind |-> "_extract_sql_clean", response |-> last_call.response,
                     out |-> _extract_sql_clean(last_call.response)]
    /\ UNCHANGED <<pipeVars, ciVars, vsVars, frameVars, handle, upd, pop, clr>>

NextExtract == CallExtractSql \/ CallExtractSqlClean

SpecExtract == InitExtract /\ [][NextExtract]_vars

-----------------------------------------------------------------------------
(* Properties *)

Terminal == pc = "done"
HasField(r, f) == f \in DOMAIN r
DownstreamStages ==
    {"get_schema_context", "retrieve_chunks", "reasoning", "generation", "validation",
     "correction", "executor", "formatter", "summary"}
Called(stage) == Count(trace, stage) > 0

\* C1: in process_query_with_execution a verdict of 'injection' ends the run with
\* status=error, error_type=security_violation and no sql_query field, a verdict
\* of 'unrelated' ends it with status=error, error_type=unrelated_query; the two
\* rejections differ in error kind and in user-facing message; and no stage
\* other than the classifier is ever called in such a run.
C1_ExecRejectsWithoutDownstreamCalls ==
    /\ (mode = "exec" /\ classification \in {"injection", "unrelated"}) =>
          /\ Terminal
          /\ trace = <<"classifier">>
          /\ \A st \in DownstreamStages : ~Called(st)
          /\ result.status = "error"
          /\ result.user_query = user_query
          /\ classification = "injection" =>
                /\ result.error_type = "security_violation"
                /\ ~HasField(result, "sql_query")
                /\ result.formatted_response = RejectInjectionResult(user_query).formatted_response
          /\ classification = "unrelated" =>
                /\ result.error_type = "unrelated_query"
                /\ result.formatted_response = RejectUnrelatedResult(user_query).formatted_response
    /\ \A q \in Queries :
          /\ RejectInjectionResult(q).error_type # RejectUnrelatedResult(q).error_type
          /\ RejectInjectionResult(q).formatted_response # RejectUnrelatedResult(q).formatted_response
          /\ RejectInjectionResult(q).error_message # RejectUnrelatedResult(q).error_message

C1_Witness ==
    /\ mode = "exec" /\ Terminal
    /\ classification = "injection"
    /\ user_query = "DROP TABLE july_HCPs"
    /\ result.error_type = "security_violation"

\* C2: in process_query a verdict of 'injection' ends the run in the
\* injection-rejection result (status=error, error_type=security_violation)
\* without a call to the retriever, the reasoning stage or SQL generation.
C2_SqlOnlyRejectsInjection ==
    (mode = "sql" /\ classification = "injection") =>
        /\ Terminal
        /\ result.status = "error"
        /\ HasField(result, "error_type")
        /\ result.error_type = "security_violation"
        /\ ~Called("get_schema_context") /\ ~Called("retrieve_chunks")
        /\ ~Called("reasoning") /\ ~Called("generation")

\* The response text as check_injection tests it (stripped and lowercased).
CI_Response == Lower(Strip(generate_response(ci_in)))
CI_Returned == ci_out # ""

\* C3: check_injection gives the markers the priority injection, unrelated,
\* valid: a response containing 'injection' yields 'injection' whatever else it
\* contains, and one containing 'unrelated' but not 'injection' yields 'unrelated'.
C3_InjectionMarkerWins ==
    CI_Returned =>
        /\ Contains(CI_Response, W_injection) => ci_out = "injection"
        /\ (Contains(CI_Response, W_unrelated) /\ ~Contains(CI_Response, W_injection))
              => ci_out = "unrelated"

\* C4: check_injection is fail-safe: a failed generator call (the sentinel text)
\* and a response with none of the markers (matched on the lowercased text, as
\* the code does) both yield 'unrelated'; 'valid' is returned only for a response
\* holding a marker; the verdict is always one of the three.
C4_ClassifierFailSafe ==
    CI_Returned =>
        /\ ci_out \in {"valid", "injection", "unrelated"}
        /\ (ci_in.raises \/ ci_in.text = SENTINEL) => ci_out = "unrelated"
        /\ (\A w \in {W_valid, W_injection, W_unrelated} : ~Contains(CI_Response, w))
              => ci_out = "unrelated"
        /\ ci_out = "valid" =>
              /\ ~ci_in.raises
              /\ \E w \in {W_valid, W_injection, W_unrelated} : Contains(Lower(ci_in.text), w)

C4_Witness == CI_Returned /\ ci_in.raises /\ ci_out = "unrelated"

\* C5: in both entry points correct_sql is called exactly 0 times when the
\* generated SQL passes validate_sql_syntax and exactly once when it does not;
\* the validation of the corrected SQL never leads to a second correction.
C5_CorrectionAtMostOnce ==
    /\ Count(trace, "correction") <= 1
    /\ pc # "correct" \/ Count(trace, "correction") = 0
    /\ (Called("generation") /\ pc \notin {"validate", "correct"}) =>
          Count(trace, "correction") = (IF is_syntax_valid(sql_query) THEN 0 ELSE 1)

C5_Witness ==
    /\ Terminal /\ mode = "exec" /\ result.status = "success"
    /\ ~is_syntax_valid(sql_query)
    /\ is_syntax_valid(valid_sql_query)
    /\ Count(trace, "correction") = 1

\* C6: a fault raised by a stage never leaves the entry point: the run ends with
\* a result of status=error carrying the original user query, which in
\* process_query_with_execution has error_type=processing_error and a non-empty
\* apology; and every run goes on until it has a result.
C6_FaultsBecomeErrorResults ==
    /\ fault # "" =>
          /\ Terminal
          /\ result.status = "error"
          /\ result.user_query = user_query
          /\ result.error_message = <<fault>>
          /\ mode = "exec" =>
                /\ HasField(result, "error_type")
                /\ result.error_type = "processing_error"
                /\ HasField(result, "formatted_response")
                /\ result.formatted_response # << >>
    /\ pc \notin {"idle", "done"} => ENABLED Next
    /\ Terminal => result.status \in {"success", "error"}

C6_Witness ==
    /\ Terminal /\ mode = "exec" /\ fault = E_JOIN
    /\ result.error_type = "processing_error"

ExecutorReportedError ==
    /\ Called("executor") /\ pc \in {"after_execute", "done"}
    /\ columns = PyNone /\ results.t = "str"
    /\ (StartsWith(results.v, DB_ERROR_MARK) \/ StartsWith(results.v, UNEXPECTED_MARK))

\* The Executor handed back columns and an empty row list.
ExecutorReturnedNoRows ==
    /\ Called("executor") /\ pc \in {"after_execute", "respond", "done"}
    /\ columns.t = "list" /\ results = PyList(<< >>)

\* C8: when the Executor returns (None, text) with text led by 'Database Error:'
\* or 'Unexpected Error:', the formatter is called once, in its error branch with
\* that text, and the run ends with status=error, error_type=database_execution,
\* error_message = the text and sql_query = the SQL the Executor was given; columns
\* with an empty row list is never a database_execution.
C8_DatabaseErrorIsReported ==
    /\ (ExecutorReportedError /\ Terminal) =>
          /\ result.status = "error"
          /\ result.error_type = "database_execution"
          /\ result.error_message = results.v
          /\ result.sql_query = execArgs[Len(execArgs)]
          /\ Len(execArgs) = 1
          /\ Count(trace, "formatter") = 1 /\ Len(fmtArgs) = 1
          /\ fmtArgs[1].branch = "error"
          /\ fmtArgs[1].error_message = results
          /\ result.formatted_response = fmtArgs[1].text
    /\ (ExecutorReportedError /\ ~Terminal) => ENABLED FormatError /\ ~ENABLED FormatResults
    /\ (ExecutorReturnedNoRows /\ Terminal) =>
          ~(HasField(result, "error_type") /\ result.error_type = "database_execution")

C8_Witness ==
    /\ Terminal /\ ExecutorReportedError
    /\ StartsWith(results.v, UNEXPECTED_MARK)
    /\ result.error_type = "database_execution"

\* C9: when the Executor returns columns and zero rows the run ends with
\* status=success, row_count = 0 and empty data, and formatted_response is what
\* the formatter's no-data branch returned (total_rows = 0, no error message).
C9_EmptyResultIsSuccess ==
    /\ (ExecutorReturnedNoRows /\ Terminal) =>
          /\ result.status = "success"
          /\ result.execution_results.row_count = 0
          /\ result.execution_results.data = PyList(<< >>)
          /\ Len(fmtArgs) = 1
          /\ fmtArgs[1].branch = "no_data"
          /\ fmtArgs[1].total_rows = PyInt(0)
          /\ fmtArgs[1].error_message = PyNone
          /\ result.formatted_response = fmtArgs[1].text
    /\ (ExecutorReturnedNoRows /\ pc = "after_execute") => ENABLED FormatResults

C9_Witness ==
    /\ Terminal /\ ExecutorReturnedNoRows
    /\ result.status = "success"
    /\ fmtArgs[1].branch = "no_data"

Min(a, b) == IF a < b THEN a ELSE b

\* C10: for a successful execution of R rows the formatter gets exactly the
\* first min(R, 20) rows, in order, with total_rows = R, while the response
\* carries all R rows in order, row_count = R and summary.total_rows = R.
C10_CapOnlyOnFormatterInput ==
    (Terminal /\ mode = "exec" /\ result.status = "success") =>
        LET R == Len(results.v)
        IN  /\ results.t = "list"
            /\ Len(fmtArgs) = 1
            /\ fmtArgs[1].results = PyList(SubSeq(results.v, 1, Min(R, 20)))
            /\ fmtArgs[1].total_rows = PyInt(R)
            /\ result.execution_results.data = PyList(results.v)
            /\ result.execution_results.row_count = R
            /\ result.summary.total_rows = R

C10_Witness ==
    /\ Terminal /\ mode = "exec" /\ result.status = "success"
    /\ Len(results.v) > 20
    /\ Len(fmtArgs[1].results.v) = 20
    /\ Len(result.execution_results.data.v) = Len(results.v)

VS_Returned == vs_out.returned

\* C11: validate_sql_syntax returns false for the empty string and for every
\* whitespace-only text, true for 'SELECT 1;', and in general true exactly when
\* the parser yields at least one statement that holds at least one token.
C11_ValidatorRejectsBlankText ==
    (VS_Returned /\ ~vs_in.parserRaises) =>
        LET parsed == sqlparse_parse(vs_in.sql)
        IN  /\ vs_in.sql = << >> => vs_out.value = FALSE
            /\ AllWhitespace(vs_in.sql) => vs_out.value = FALSE
            /\ vs_in.sql = SELECT_1 => vs_out.value = TRUE
            /\ vs_out.value = (\E i \in 1..Len(parsed) : parsed[i] # << >>)

C11_Witness ==
    /\ VS_Returned /\ ~vs_in.parserRaises
    /\ vs_in.sql = <<" ", " ", " ">>
    /\ vs_out.value = FALSE

\* C12: validate_sql_syntax is total: whatever the text and whether or not the
\* parser raises, the call returns a boolean and raises nothing; a parser
\* failure gives false.
C12_ValidatorIsTotal ==
    VS_Returned =>
        /\ ~vs_out.raised
        /\ vs_out.value \in BOOLEAN
        /\ vs_in.parserRaises => vs_out.value = FALSE

C12_Witness ==
    /\ VS_Returned /\ vs_in.parserRaises /\ vs_in.sql = SELECT_1
    /\ ~vs_out.raised /\ vs_out.value = FALSE

\* The last call was a get_schema_context that returned.
Retrieved == last_call.kind = "get_schema_context" /\ ~last_call.raised

\* C13: get_schema_context returns exactly 'No relevant schema found.', never
\* an empty string, whenever the filtered retrieval is empty; when the query's
\* embedding fails, retrieve_chunks returns [] without a query to the store and
\* get_schema_context returns the sentinel and does not raise.
C13_EmptyRetrievalGivesSentinel ==
    /\ Retrieved =>
          /\ last_call.chunks = << >> => last_call.context = <<"No relevant schema found.">>
          /\ last_call.context # << >>
    /\ (last_call.kind = "get_schema_context" /\ ~last_call.embOk) =>
          /\ ~last_call.queried
          /\ ~last_call.raised
          /\ last_call.chunks = << >>
          /\ last_call.context = <<"No relevant schema found.">>

C13_Witness ==
    /\ last_call.kind = "get_schema_context" /\ ~last_call.embOk
    /\ DOMAIN collection # {}
    /\ last_call.context = NO_SCHEMA

\* The stored chunks within the threshold of the retrieval's query.
WithinThreshold ==
    {id \in DOMAIN collection :
        Distance(collection[id].embedding, EmbeddingVector(last_call.query)) <= THRESHOLD}

\* C14: the list retrieve_chunks returns has at most k pairs, each a stored
\* chunk with its distance to the query, each distance at or below the
\* threshold; it leaves out no chunk within the threshold that is among the k
\* nearest; the pairs are in ascending distance; and get_schema_context
\* renders them in that order, numbered from 1.
C14_RetrievalFilteredAndOrdered ==
    Retrieved =>
        LET c == last_call.chunks
            k == last_call.k
            qe == EmbeddingVector(last_call.query)
            ctx == last_call.context
        IN  /\ Len(c) <= k
            /\ \A i \in 1..Len(c) :
                  /\ c[i][2] <= THRESHOLD
                  /\ \E id \in DOMAIN collection :
                        /\ collection[id].document = c[i][1]
                        /\ Distance(collection[id].embedding, qe) = c[i][2]
            /\ last_call.embOk => Len(c) = Min(k, Cardinality(WithinThreshold))
            /\ \A id \in DOMAIN collection :
                  (\E i \in 1..Len(c) : Distance(collection[id].embedding, qe) < c[i][2])
                     => \E j \in 1..Len(c) : c[j][1] = collection[id].document
            /\ \A i \in 1..(Len(c) - 1) : c[i][2] <= c[i + 1][2]
            /\ c # << >> =>
                  /\ Len(ctx) = 1 + 9 * Len(c)
                  /\ \A i \in 1..Len(c) :
                        /\ ctx[9 * i - 6] = ToString(i)
                        /\ SubSeq(ctx, 9 * i - 4, 9 * i - 2) = FormatScore(c[i][2])
                        /\ ctx[9 * i] = c[i][1]

C14_Witness ==
    /\ Retrieved
    /\ last_call.k = 2
    /\ Cardinality(WithinThreshold) = 3
    /\ Len(last_call.chunks) = 2
    /\ last_call.chunks[1][2] < last_call.chunks[2][2]
    /\ \E id \in DOMAIN collection :
          Distance(collection[id].embedding, EmbeddingVector(last_call.query)) = THRESHOLD

\* The last call was a get_schema_context made right after an
\* update_schema_chunk(chunk_id, content), with a query whose embedding is
\* nearer to content's than to that of any chunk stored under another id.
RetrievedRightAfterUpdate ==
    /\ last_call.kind = "get_schema_context"
    /\ last_call.prev.kind = "update_schema_chunk"
    /\ LET qe == EmbeddingVector(last_call.query)
           ce == EmbeddingVector(last_call.prev.content)
       IN  \A id \in DOMAIN collection \ {last_call.prev.chunk_id} :
              Distance(ce, qe) < Distance(collection[id].embedding, qe)

UpdatedChunkDistance ==
    Distance(EmbeddingVector(last_call.prev.content), EmbeddingVector(last_call.query))

C15_FailedEmbeddingLeavesStore ==
    last_call.kind = "update_schema_chunk" =>
        /\ ~last_call.embOk =>
              /\ ~last_call.stored
              /\ collection = last_call.store_before
        /\ last_call.stored =>
              /\ DOMAIN collection = DOMAIN last_call.store_before \cup {last_call.chunk_id}
              /\ collection[last_call.chunk_id] =
                    [document |-> last_call.content,
                     embedding |-> EmbeddingVector(last_call.content),
                     metadata |-> [table |-> last_call.chunk_id]]
              /\ \A id \in DOMAIN last_call.store_before \ {last_call.chunk_id} :
                    collection[id] = last_call.store_before[id]

C15_Witness ==
    /\ last_call.kind = "update_schema_chunk"
    /\ ~last_call.embOk
    /\ last_call.chunk_id = "july_HCPs"
    /\ last_call.content = DOC_HCPS_REVISED
    /\ "july_HCPs" \in DOMAIN collection
    /\ collection["july_HCPs"].document = DOC_HCPS
    /\ collection["july_HCPs"].embedding = EmbeddingVector(DOC_HCPS)

\* Every stored chunk's embedding is the one computed from its content.
EmbeddingsMatchContent ==
    \A id \in DOMAIN collection :
        /\ collection[id].embedding # << >>
        /\ collection[id].embedding = EmbeddingVector(collection[id].document)

\* A caller's upsert writes its own content with the embedding of that
\* content under its id and leaves every chunk stored under another id.
UpsertWritesOwnChunkOnly ==
    \A c \in Callers :
        (upd[c].pc = "upsert" /\ upd'[c].pc = "returned" /\ upd'[c].stored) =>
            /\ upd[c].chunk_id \in DOMAIN collection'
            /\ collection'[upd[c].chunk_id] =
                  [document |-> upd[c].content,
                   embedding |-> EmbeddingVector(upd[c].content),
                   metadata |-> [table |-> upd[c].chunk_id]]
            /\ \A id \in DOMAIN collection \ {upd[c].chunk_id} :
                  id \in DOMAIN collection' /\ collection'[id] = collection[id]

\* C16: under every interleaving of population, update_schema_chunk,
\* delete_schema_chunk and clear_collection calls, with embedding calls that may
\* fail, every stored chunk has the embedding computed from its current
\* content; an update that stores its chunk leaves the chunks under other ids
\* stored, so two concurrent updates to different ids both land; and of two
\* concurrent updates to one id the stored content and embedding both come
\* from the one that wrote last.
C16_StoredEmbeddingsNeverStale ==
    [](EmbeddingsMatchContent) /\ [][UpsertWritesOwnChunkOnly]_vars

C16_Witness ==
    /\ upd["a"].pc = "returned" /\ upd["a"].stored /\ upd["a"].overlapped
    /\ upd["b"].pc = "returned" /\ upd["b"].stored
    /\ upd["a"].chunk_id = upd["b"].chunk_id
    /\ upd["a"].content # upd["b"].content
    /\ upd["a"].chunk_id \in DOMAIN collection
    /\ collection[upd["a"].chunk_id].document = upd["a"].content
    /\ collection[upd["a"].chunk_id].embedding = EmbeddingVector(upd["a"].content)

\* C18: whatever text the generator returns to the correction stage (SQL,
\* prose, fenced code, empty text, the sentinel), the string correct_sql returns
\* ends with ';', so the SQL validated, executed and reported after a
\* correction ends with ';'.
C18_CorrectedSqlEndsWithTerminator ==
    (Called("correction") /\ pc # "correct") => EndsWith(valid_sql_query, <<";">>)

\* C19: the generator signals failure by returning 'Error generating response'
\* and every generation-based stage checks for it: the sentinel is not
\* forwarded as reasoning, is not passed to the Executor as SQL, and is not the
\* formatted_response of a status=success result.
C19_SentinelIsNotForwarded ==
    /\ reasoning # SENTINEL
    /\ \A i \in 1..Len(execArgs) : execArgs[i] \notin {SENTINEL, SENTINEL \o <<";">>}
    /\ (Terminal /\ result.status = "success" /\ HasField(result, "formatted_response"))
          => result.formatted_response # SENTINEL

\* C20: every execute_query call has released the connection it opened by the
\* time it returns, on every exit path, a failure while closing the cursor
\* included: no connection opened by a request stays open.
C20_ConnectionsAreReleased == open_connections = 0

-----------------------------------------------------------------------------
(* The /query handler of app.py *)

\* What the handler answers for the result of process_query_with_execution
\* (app.py:252-300): the HTTP status and the body's error field.
query_with_execution(r) ==
    IF r.status = "success"
    THEN [status_code |-> 200, error |-> ""]
    ELSE [status_code |-> IF HasField(r, "error_type") /\ r.error_type = "security_violation"
                          THEN 400 ELSE 500,
          error |-> IF HasField(r, "error_type") THEN r.error_type ELSE "processing_error"]

\* C21: the /query handler surfaces a result with error_type=unrelated_query as
\* a normal rejection and never with a 5xx status, while security_violation is
\* surfaced with a 400-class status.
C21_UnrelatedIsNotServerError ==
    (Terminal /\ mode = "exec" /\ HasField(result, "error_type")) =>
        /\ result.error_type = "unrelated_query" =>
              query_with_execution(result).status_code < 500
        /\ result.error_type = "security_violation" =>
              query_with_execution(result).status_code \in 400..499

CorrectorOutputs == {correct_sql(o) : o \in CorrectorOutcomes}

\* The generated SQL failed validation, correct_sql has run, and the corrected
\* SQL failed validation too.
BothValidationsFailed ==
    /\ Called("correction")
    /\ pc \notin {"correct", "revalidate"}
    /\ ~is_valid_sql
    /\ ~is_syntax_valid(valid_sql_query)

Formatted == last_call.kind = "format_query_results"

\* total_rows if given, else the number of rows passed
EffectiveTotal(a) == IF a.total_rows.t # "None" THEN a.total_rows.v ELSE PyLen(a.results)

BranchByInputShape(a) ==
    IF PyTruthy(a.error_message) THEN "error"
    ELSE IF EffectiveTotal(a) = 0 THEN "no_data"
    ELSE "data"

\* The branch format_query_results takes is the one its input's shape selects.
FormatterBranchFollowsInput ==
    Formatted => last_call.out.branch = BranchByInputShape(last_call.args)

\* C24: format_query_results takes exactly one of three branches for every
\* input (explain-failure iff an error message is present, else no-data iff
\* the effective total is 0, else data-summary), makes exactly one generator
\* call in each call, and builds a data sample only in the data-summary branch.
C24_OneBranchOneGeneratorCall ==
    Formatted =>
        /\ last_call.out.branch = BranchByInputShape(last_call.args)
        /\ last_call.out.generator_calls = 1
        /\ last_call.out.sample_built => last_call.out.branch = "data"

\* The table the data-summary prompt is said to carry for arguments a: header,
\* separator, the first min(n, 10) rows in order, and the trailer iff the
\* effective total exceeds the number of sample rows.
SampleTable(a) ==
    LET n == PyLen(a.results)
        k == Min(n, SAMPLE_MAX_ROWS)
        total == EffectiveTotal(a)
    IN  <<[kind |-> "header", cells |-> IF a.columns.t = "list" THEN a.columns.v ELSE << >>],
          [kind |-> "separator"]>>
        \o [i \in 1..k |-> [kind |-> "row", cells |-> FormatRow(a.results.v[i])]]
        \o (IF total > k THEN <<[kind |-> "trailer", more |-> total - k]>> ELSE << >>)

SampleRowCount(sample) == Cardinality({i \in 1..Len(sample) : sample[i].kind = "row"})

SampleTrailers(sample) == {sample[i].more : i \in {j \in 1..Len(sample) : sample[j].kind = "trailer"}}

\* End to end: for R > 0 rows returned by the executor, the sample has
\* min(R, 10) rows and a trailer, when present, reports R - 10.
ChainSampleCounts ==
    (Formatted /\ last_call.args.origin = "chain" /\ PyLen(last_call.args.executed) > 0) =>
        /\ last_call.out.sample_built
        /\ SampleRowCount(last_call.out.sample) = Min(PyLen(last_call.args.executed), SAMPLE_MAX_ROWS)
        /\ SampleTrailers(last_call.out.sample) \subseteq {PyLen(last_call.args.executed) - SAMPLE_MAX_ROWS}
        /\ (SampleTrailers(last_call.out.sample) # {}) <=> (PyLen(last_call.args.executed) > SAMPLE_MAX_ROWS)

Extracted == last_call.kind = "_extract_sql"

\* Where the recognized statement keywords occur in s, case-insensitively.
KeywordPositions(s) == {Find(Upper(s), k) : k \in StatementKeywords} \ {0}

FirstKeywordPosition(s) == CHOOSE p \in KeywordPositions(s) : \A q \in KeywordPositions(s) : p <= q

\* _extract_sql cuts at the first SELECT only: with another keyword later in
\* the text and no SELECT, the text is returned whole.
ExtractSqlCutsAtFirstSelect ==
    Extracted =>
        LET t == RemoveFences(Strip(last_call.response))
        IN  /\ KeywordLed(t) => last_call.out = Strip(t)
            /\ (~KeywordLed(t) /\ Contains(Upper(t), K_SELECT)) =>
                    last_call.out = Strip(SubSeq(t, Find(Upper(t), K_SELECT), Len(t)))
            /\ (~KeywordLed(t) /\ ~Contains(Upper(t), K_SELECT)) => last_call.out = Strip(t)

\* C26: after the leading fence is stripped, a text that does not begin with a
\* recognized statement keyword (SELECT, INSERT, UPDATE, DELETE, WITH) but
\* holds one later is returned from the first occurrence of such a keyword on;
\* a text that begins with a recognized keyword is returned unchanged apart
\* from trimming.
C26_ExtractStartsAtFirstKeyword ==
    Extracted =>
        LET t == RemoveFences(Strip(last_call.response))
        IN  /\ KeywordLed(t) => last_call.out = Strip(t)
            /\ (~KeywordLed(t) /\ KeywordPositions(t) # {}) =>
                    last_call.out = Strip(SubSeq(t, FirstKeywordPosition(t), Len(t)))

Cleaned == last_call.kind = "_extract_sql_clean"

WordChars ==
    {UpperLetters[i] : i \in 1..26} \cup {LowerLetters[i] : i \in 1..26}
    \cup {"0", "1", "2", "3", "4", "5", "6", "7", "8", "9", "_"}

\* The leading token of a line: its longest prefix of word characters.
LeadingToken(line) ==
    LET stops == {i \in 1..Len(line) : line[i] \notin WordChars}
    IN  IF stops = {} THEN line
        ELSE SubSeq(line, 1, (CHOOSE i \in stops : \A j \in stops : i <= j) - 1)

TokenLed(line) == Upper(LeadingToken(line)) \in StatementKeywords

\* The stripped, non-empty lines of t, in order.
NonEmptyLines(t) ==
    LET ls == Split(t, <<"\n">>)
    IN  SelectSeq([i \in 1..Len(ls) |-> Strip(ls[i])], LAMBDA l : l # << >>)

\* The lines from the first one that Led accepts up to the first of them that
\* ends with ';' (or the last line); none when Led accepts no line.
LinesFromFirstLed(ls, Led(_)) ==
    LET starts == {i \in 1..Len(ls) : Led(ls[i])}
    IN  IF starts = {} THEN << >>
        ELSE LET a == CHOOSE i \in starts : \A j \in starts : i <= j
                 ends == {i \in a..Len(ls) : EndsWith(ls[i], <<";">>)}
                 b == IF ends = {} THEN Len(ls) ELSE CHOOSE i \in ends : \A j \in ends : i <= j
             IN  SubSeq(ls, a, b)

WithTerminator(s) == IF s # << >> /\ ~EndsWith(s, <<";">>) THEN s \o <<";">> ELSE s

\* The SQL the line scan, else the fallback, else the raw trimmed text gives
\* for the unfenced text t, when Led decides which line is keyword-led.
CleanedBy(t, Led(_)) ==
    LET c == LinesFromFirstLed(NonEmptyLines(t), Led)
    IN  IF c # << >> THEN WithTerminator(Join(c, <<" ">>))
        ELSE IF Contains(Upper(t), K_SELECT)
        THEN WithTerminator(Strip(CutAfterFirstSemicolon(
                                    SubSeq(t, Find(Upper(t), K_SELECT), Len(t)))))
        ELSE WithTerminator(Strip(t))

\* With 'keyword-led' read as 'the line's text begins with the keyword's
\* letters, in either case', the scan, the fallback and the pass-through are
\* used as described.
CleanScansFromFirstKeywordPrefix ==
    Cleaned => last_call.out = CleanedBy(FencedBlock(Strip(last_call.response)), KeywordLed)

\* C27: the line scan collects from the first line whose leading token is a
\* recognized statement keyword, then every later non-empty line, and stops at
\* the first collected line ending with ';', so no line before the first
\* keyword-led line and none after the first terminator-ending line is in the
\* returned SQL; the fallback (first SELECT, cut at its first ';') is used only
\* when no line was collected, the raw trimmed response only when the
\* fallback also finds nothing.
C27_CleanScansFromFirstKeywordLine ==
    Cleaned => last_call.out = CleanedBy(FencedBlock(Strip(last_call.response)), TokenLed)

\* What was called before the executor, in call order.
StagesBeforeExecutor ==
    SubSeq(trace, 1, (CHOOSE i \in 1..Len(trace) : trace[i] = "executor") - 1)

\* C28: the executor is invoked at most once per request, only by
\* process_query_with_execution, only after the classifier returned 'valid'
\* and retrieval, reasoning, generation, validation (and correction, when
\* needed) completed in that order; the SQL it receives is the sql_query of the
\* result; process_query never invokes the executor or the formatter.
C28_ExecutorOnceAfterAllStages ==
    /\ Count(trace, "executor") <= 1
    /\ Len(execArgs) = Count(trace, "executor")
    /\ mode = "sql" => ~Called("executor") /\ ~Called("formatter")
    /\ Called("executor") =>
          /\ mode = "exec"
          /\ classification = "valid"
          /\ StagesBeforeExecutor =
                <<"classifier", "get_schema_context", "retrieve_chunks", "reasoning",
                  "generation", "validation">>
                \o (IF is_valid_sql THEN << >> ELSE <<"correction", "validation">>)
          /\ execArgs = <<valid_sql_query>>
    /\ (Terminal /\ Called("executor") /\ HasField(result, "sql_query")) =>
          execArgs = <<result.sql_query>>

C28_Witness ==
    /\ Terminal /\ mode = "exec" /\ result.status = "success"
    /\ Called("correction")
    /\ execArgs = <<result.sql_query>>
    /\ result.sql_query # sql_query

\* With the store unchanged during the request, the reported chunks and the
\* rendered ones differ only when one of the two retrievals came back empty.
ChunksDifferOnlyByAnEmptyRetrieval ==
    (Terminal /\ result.status = "success") =>
        \/ schema_context = get_schema_context(retrieved_chunks)
        \/ schema_context = NO_SCHEMA
        \/ retrieved_chunks = << >>

\* C29: the retrieved_chunks reported in a successful result are exactly the
\* chunks, in order and with their scores, rendered into the schema_context
\* the reasoning, generation and correction stages were given, also when an
\* embedding call fails on one of the two retrievals of the request.
C29_ReportedChunksAreTheContextChunks ==
    (Terminal /\ result.status = "success") =>
        /\ result.retrieved_chunks = ChunkDicts(retrieved_chunks)
        /\ schema_context = get_schema_context(retrieved_chunks)

\* The executor returned (None, 'Query executed successfully. N rows affected.').
WriteConfirmed ==
    /\ mode = "exec"
    /\ pc \in {"after_execute", "respond", "done"}
    /\ columns.t = "None"
    /\ results.t = "str"
    /\ StartsWith(results.v, EXECUTED_PREFIX)

\* C30: when the executor has executed and committed a non-SELECT statement and
\* returned its confirmation text, the run is neither a database error nor a
\* success: the text goes to the formatter as row data with columns=None, the
\* sample cannot be built, and the result is status=error,
\* error_type=processing_error without sql_query, the statement being
\* committed already.
C30_CommittedWriteEndsAsProcessingError ==
    WriteConfirmed =>
        /\ ~IsDatabaseError(columns, results)
        /\ commits = <<valid_sql_query>>
        /\ pc # "respond"
        /\ Terminal =>
              /\ Len(fmtArgs) = 1
              /\ fmtArgs[1].columns = PyNone
              /\ fmtArgs[1].error_message = PyNone
              /\ fmtArgs[1].results = PySlice(results, LLM_ROW_CAP)
              /\ fmtArgs[1].total_rows = PyInt(PyLen(results))
              /\ fmtArgs[1].branch = "data"
              /\ fault = E_JOIN
              /\ result = ExceptionResultExec(user_query, E_JOIN)
              /\ result.status = "error"
              /\ result.error_type = "processing_error"
              /\ ~HasField(result, "sql_query")

C30_Witness ==
    /\ WriteConfirmed
    /\ Terminal
    /\ commits = <<K_DELETE \o <<" ","F","R","O","M"," ","t">>>>
    /\ result.status = "error"
    /\ result.error_type = "processing_error"
    /\ fault = E_JOIN

====
